---- MODULE Spec2Model ----
(***************************************************************************)
(* A model of bindfit (src/bindfit): the model factory `construct`, the    *)
(* equilibrium model catalog, the objective-function layer and the fit     *)
(* driver `Fitter` with its statistics step.                               *)
(*                                                                         *)
(* Numbers.  numpy works on IEEE doubles; the model works on exact         *)
(* rationals <<n, d>> (d > 0, lowest terms), extended with the three       *)
(* non-finite values numpy produces instead of raising: <<1, 0>> = inf,    *)
(* <<-1, 0>> = -inf and <<0, 0>> = nan.  Inputs are drawn from small sets  *)
(* on which every intermediate value is such a rational.                   *)
(*                                                                         *)
(* Interpreter.  run_scipy reads time.clock (fitter.py:74), which some      *)
(* interpreters have and others do not; env.has_clock is fixed by the      *)
(* initial state, either way.                                              *)
(***************************************************************************)
EXTENDS Integers, Sequences, FiniteSets, TLC

VARIABLES
    ctor,               \* the last call of construct and what it returned
    mdl,                \* the last call of an equilibrium model and its result
    obj,                \* the last call of an objective function and its result
    hlp,                \* a round trip through normalise and denormalise
    env,                \* the interpreter: time.clock, numpy's print options
    fitter,             \* the attributes of a Fitter object
    run,                \* the frame of the call of run_scipy
    stat,               \* the calls of statistics made from outside run_scipy
    hist                \* history: which run wrote each result field

fit_vars == <<env, fitter, run, stat, hist>>
vars == <<ctor, mdl, obj, hlp, env, fitter, run, stat, hist>>

None == "None"

-----------------------------------------------------------------------------
(* Exact extended rationals *)

Abs(n) == IF n < 0 THEN -n ELSE n

Sign(n) == IF n < 0 THEN -1 ELSE IF n > 0 THEN 1 ELSE 0

RECURSIVE Gcd(_, _)
Gcd(a, b) == IF b = 0 THEN a ELSE Gcd(b, a % b)

RNorm(n, d) ==
    IF d = 0 THEN <<Sign(n), 0>>
    ELSE LET g == Gcd(Abs(n), Abs(d))
             s == IF d < 0 THEN -1 ELSE 1
         IN  <<(s * n) \div g, (s * d) \div g>>

R(n) == <<n, 1>>
Zero == R(0)
One == R(1)
NaN == <<0, 0>>
Inf == <<1, 0>>

IsFinite(a) == a[2] # 0
IsNaN(a) == a = NaN

RNeg(a) == <<-a[1], a[2]>>

RAdd(a, b) ==
    IF IsFinite(a) /\ IsFinite(b) THEN RNorm(a[1] * b[2] + b[1] * a[2], a[2] * b[2])
    ELSE IF IsNaN(a) \/ IsNaN(b) THEN NaN
    ELSE IF ~IsFinite(a) /\ ~IsFinite(b) THEN (IF a = b THEN a ELSE NaN)
    ELSE IF IsFinite(a) THEN b ELSE a

RSub(a, b) == RAdd(a, RNeg(b))

RMul(a, b) == RNorm(a[1] * b[1], a[2] * b[2])

RInv(a) == RNorm(a[2], a[1])

RDiv(a, b) == RMul(a, RInv(b))

RLt(a, b) ==
    IF IsNaN(a) \/ IsNaN(b) THEN FALSE
    ELSE IF ~IsFinite(a) /\ ~IsFinite(b) THEN a[1] < b[1]
    ELSE a[1] * b[2] < b[1] * a[2]

RLe(a, b) == ~IsNaN(a) /\ ~IsNaN(b) /\ (a = b \/ RLt(a, b))

RSq(a) == RMul(a, a)

RECURSIVE RSum(_)
RSum(s) == IF s = <<>> THEN Zero ELSE RAdd(s[1], RSum(Tail(s)))

RECURSIVE RProd(_)
RProd(s) == IF s = <<>> THEN One ELSE RMul(s[1], RProd(Tail(s)))


-----------------------------------------------------------------------------
(* numpy.roots, restricted to the polynomials whose roots are exactly       *)
(* representable: every real root is simple and lies on the grid of         *)
(* quarters {n / 4 : |n| <= RootBox}; the other roots are one complex pair. *)
(* A root is [re, im_sign, im_sq]: its real part, the sign of its imaginary *)
(* part and the square of its imaginary part.  known = FALSE marks a        *)
(* polynomial outside the restriction; no call of a model is made on one.   *)

RootBox == 8

Grid == {RNorm(n, 4) : n \in -RootBox..RootBox}

RECURSIVE StripLeading(_)
StripLeading(p) ==
    IF p # <<>> /\ p[1] = Zero THEN StripLeading(Tail(p)) ELSE p

RECURSIVE Horner(_, _, _)
Horner(p, x, acc) ==
    IF p = <<>> THEN acc ELSE Horner(Tail(p), x, RAdd(RMul(acc, x), p[1]))

PolyEval(p, x) == Horner(p, x, Zero)

Deriv(p) == [i \in 1..(Len(p) - 1) |-> RMul(R(Len(p) - i), p[i])]

RealRoots(q) == {x \in Grid : PolyEval(q, x) = Zero}

\* The quadratic left after dividing the real root x0 out of the cubic q.
Deflate(q, x0) ==
    << q[1],
       RAdd(q[2], RMul(q[1], x0)),
       RAdd(q[3], RMul(RAdd(q[2], RMul(q[1], x0)), x0)) >>

Disc(quad) == RSub(RSq(quad[2]), RProd(<<R(4), quad[1], quad[3]>>))

RealRoot(x) == [re |-> x, im_sign |-> 0, im_sq |-> Zero]

ComplexPair(quad) ==
    {[re      |-> RDiv(RNeg(quad[2]), RMul(R(2), quad[1])),
      im_sign |-> s,
      im_sq   |-> RDiv(RNeg(Disc(quad)), RProd(<<R(4), quad[1], quad[1]>>))] :
        s \in {-1, 1}}

NotExact == [known |-> FALSE, roots |-> {}]

roots_with_pair(real, quad) ==
    IF RLt(Disc(quad), Zero)
    THEN [known |-> TRUE, roots |-> {RealRoot(x) : x \in real} \cup ComplexPair(quad)]
    ELSE NotExact

\* q has no leading zero and degree >= 1; real is the set of its grid roots.
roots_of(q, real) ==
    IF \E x \in real : PolyEval(Deriv(q), x) = Zero THEN NotExact
    ELSE IF Cardinality(real) = Len(q) - 1
    THEN [known |-> TRUE, roots |-> {RealRoot(x) : x \in real}]
    ELSE IF Cardinality(real) = Len(q) - 3
    THEN roots_with_pair(real, IF Len(q) = 3 THEN q
                               ELSE Deflate(q, CHOOSE x \in real : TRUE))
    ELSE NotExact

np_roots_stripped(q) ==
    IF Len(q) < 2 THEN [known |-> TRUE, roots |-> {}] ELSE roots_of(q, RealRoots(q))

np_roots(p) == np_roots_stripped(StripLeading(p))

-----------------------------------------------------------------------------
(* The equilibrium model catalog: functions.py.  A model returns            *)
(* (hg_mat_fit, hg_mat), here the fields fit and molefrac; the record also  *)
(* shows two locals of the call, the free-species vector (g or h in the     *)
(* code) as free and, in the 1:2 and 2:1 models, k12.                       *)

\* A different selection: the largest qualifying root.
select_root_largest(roots) ==
    LET select == {z \in roots : z.im_sign = 0 /\ RLe(Zero, z.re)}
    IN  IF select # {}
        THEN (CHOOSE z \in select : \A w \in select : RLe(w.re, z.re)).re
        ELSE Zero

\* The root selection every cubic model applies to one observation's roots:
\* the smallest of the roots with imaginary part == 0 and real part >= 0,
\* 0.0 when there is none.
select_root(roots) ==
    LET select == {z \in roots : z.im_sign = 0 /\ RLe(Zero, z.re)}
    IN  IF select # {}
        THEN (CHOOSE z \in select : \A w \in select : RLe(z.re, w.re)).re
        ELSE Zero

\* for i, p in enumerate(poly): roots = np.roots(p) ... g[i] = soln
RECURSIVE solve_cubic(_)
solve_cubic(poly) ==
    IF poly = <<>> THEN <<>>
    ELSE <<select_root(np_roots(poly[1]).roots)>> \o solve_cubic(Tail(poly))

IndexError == [status |-> "IndexError"]

\* A different rule: the secondary constant is read from params[1] whenever
\* the caller supplies one.
secondary_constant_fitted(params, flavour) ==
    IF Len(params) >= 2 THEN params[2] ELSE RDiv(params[1], R(4))

\* The secondary constant of the 1:2 and 2:1 models.
secondary_constant(params, flavour) ==
    IF flavour = "noncoop" \/ flavour = "stat"
    THEN RDiv(params[1], R(4)) ELSE params[2]

\* params[0], and params[1] where the flavour reads it, exist.
HasConstants(params, flavour) ==
    Len(params) >= 1 /\ (flavour \in {"noncoop", "stat"} \/ Len(params) >= 2)

\* Rows: data points, cols: poly coefficients (the cubic in free guest [G]).
poly_1to2(k11, k12, h0, g0) ==
    [i \in 1..Len(h0) |->
        << RMul(k11, k12),
           RSub(RAdd(RProd(<<R(2), k11, k12, h0[i]>>), k11),
                RProd(<<g0[i], k11, k12>>)),
           RSub(RAdd(One, RMul(k11, h0[i])), RMul(k11, g0[i])),
           RNeg(g0[i]) >>]

\* The cubic in free host [H].
poly_2to1(k11, k12, h0, g0) ==
    [i \in 1..Len(h0) |->
        << RMul(k11, k12),
           RSub(RAdd(RProd(<<R(2), k11, k12, g0[i]>>), k11),
                RProd(<<h0[i], k11, k12>>)),
           RSub(RAdd(One, RMul(k11, g0[i])), RMul(k11, h0[i])),
           RNeg(h0[i]) >>]

\* (ke*h0)**2
KeH0Sq(ke, h0) == RSq(RMul(ke, h0))

\* The cubic in the free monomer fraction (eq 146).
poly_coek(ke, rho, h0) ==
    [i \in 1..Len(h0) |->
        << RSub(KeH0Sq(ke, h0[i]), RMul(rho, KeH0Sq(ke, h0[i]))),
           RSub(RSub(RProd(<<R(2), rho, ke, h0[i]>>), RProd(<<R(2), ke, h0[i]>>)),
                KeH0Sq(ke, h0[i])),
           RAdd(RProd(<<R(2), ke, h0[i]>>), One),
           RNeg(One) >>]

\* 1+(x*k11)+(x*x*k11*k12), x the free guest or the free host
Partition(x, k11, k12) == RSum(<<One, RMul(x, k11), RProd(<<x, x, k11, k12>>)>>)

\* One row of a stacked array: the field f of every observation.
Row(obs, f) == [i \in DOMAIN obs |-> obs[i][f]]

\* The stacking without the additive fold: three rows for every flavour.
stack_binding_unfolded(k12, free, obs, flavour) ==
    [status   |-> "ok",
     k12      |-> k12,
     free     |-> free,
     fit      |-> <<Row(obs, "h"), Row(obs, "hg"), Row(obs, "hg2")>>,
     molefrac |-> <<Row(obs, "mf_h"), Row(obs, "mf_hg"), Row(obs, "mf_hg2")>>]

\* np.vstack of the 1:2 and 2:1 models: hg_mat_fit by flavour, and hg_mat.
stack_binding(k12, free, obs, flavour) ==
    [status   |-> "ok",
     k12      |-> k12,
     free     |-> free,
     fit      |-> IF flavour = "add" \/ flavour = "stat"
                  THEN <<Row(obs, "h"), Row(obs, "hg_add")>>
                  ELSE <<Row(obs, "h"), Row(obs, "hg"), Row(obs, "hg2")>>,
     molefrac |-> <<Row(obs, "mf_h"), Row(obs, "mf_hg"), Row(obs, "mf_hg2")>>]

\* h = h0 - hg - hg2; hg_add = hg + 2*hg2; molefractions h/h0, hg/h0, hg2/h0
uv_species(h0, hg, hg2) ==
    [h      |-> RSub(RSub(h0, hg), hg2),
     hg     |-> hg,
     hg2    |-> hg2,
     hg_add |-> RAdd(hg, RMul(R(2), hg2)),
     mf_h   |-> RDiv(RSub(RSub(h0, hg), hg2), h0),
     mf_hg  |-> RDiv(hg, h0),
     mf_hg2 |-> RDiv(hg2, h0)]

\* The species with a free host that leaves the second complex out of
\* account: h = 1 - hg.
nmr_species_first_complex(hg, hg2) ==
    [h      |-> RSub(One, hg),
     hg     |-> hg,
     hg2    |-> hg2,
     hg_add |-> RAdd(hg, RMul(R(2), hg2)),
     mf_h   |-> RSub(One, hg),
     mf_hg  |-> hg,
     mf_hg2 |-> hg2]

\* h = 1 - hg - hg2; hg_add = hg + 2*hg2; molefractions h, hg, hg2
nmr_species(hg, hg2) ==
    [h      |-> RSub(RSub(One, hg), hg2),
     hg     |-> hg,
     hg2    |-> hg2,
     hg_add |-> RAdd(hg, RMul(R(2), hg2)),
     mf_h   |-> RSub(RSub(One, hg), hg2),
     mf_hg  |-> hg,
     mf_hg2 |-> hg2]

\* uv_1to2 from the solved free guest g on
uv_1to2_g(k11, k12, h0, g, flavour) ==
    stack_binding(k12, g,
        [i \in 1..Len(h0) |->
            uv_species(h0[i],
                RMul(h0[i], RDiv(RMul(g[i], k11), Partition(g[i], k11, k12))),
                RMul(h0[i], RDiv(RProd(<<g[i], g[i], k11, k12>>),
                                 Partition(g[i], k11, k12))))],
        flavour)

uv_1to2_k(k11, k12, h0, g0, flavour) ==
    uv_1to2_g(k11, k12, h0, solve_cubic(poly_1to2(k11, k12, h0, g0)), flavour)

uv_1to2(params, xdata, flavour) ==
    IF ~HasConstants(params, flavour) THEN IndexError
    ELSE uv_1to2_k(params[1], secondary_constant(params, flavour),
                   xdata[1], xdata[2], flavour)

\* nmr_1to2 from the solved free guest g on
nmr_1to2_g(k11, k12, h0, g, flavour) ==
    stack_binding(k12, g,
        [i \in 1..Len(h0) |->
            nmr_species(
                RDiv(RMul(g[i], k11), Partition(g[i], k11, k12)),
                RDiv(RProd(<<g[i], g[i], k11, k12>>), Partition(g[i], k11, k12)))],
        flavour)

nmr_1to2_k(k11, k12, h0, g0, flavour) ==
    nmr_1to2_g(k11, k12, h0, solve_cubic(poly_1to2(k11, k12, h0, g0)), flavour)

nmr_1to2(params, xdata, flavour) ==
    IF ~HasConstants(params, flavour) THEN IndexError
    ELSE nmr_1to2_k(params[1], secondary_constant(params, flavour),
                    xdata[1], xdata[2], flavour)

\* nmr_2to1 from the solved free host h on
nmr_2to1_h(k11, k12, h0, g0, h, flavour) ==
    stack_binding(k12, h,
        [i \in 1..Len(h0) |->
            nmr_species(
                RDiv(RProd(<<g0[i], h[i], k11>>),
                     RMul(h0[i], Partition(h[i], k11, k12))),
                RDiv(RProd(<<R(2), g0[i], h[i], h[i], k11, k12>>),
                     RMul(h0[i], Partition(h[i], k11, k12))))],
        flavour)

nmr_2to1_k(k11, k12, h0, g0, flavour) ==
    nmr_2to1_h(k11, k12, h0, g0, solve_cubic(poly_2to1(k11, k12, h0, g0)), flavour)

nmr_2to1(params, xdata, flavour) ==
    IF ~HasConstants(params, flavour) THEN IndexError
    ELSE nmr_2to1_k(params[1], secondary_constant(params, flavour),
                    xdata[1], xdata[2], flavour)

\* uv_2to1 from the solved free host h on
uv_2to1_h(k11, k12, h0, g0, h, flavour) ==
    stack_binding(k12, h,
        [i \in 1..Len(h0) |->
            uv_species(h0[i],
                RMul(g0[i], RDiv(RMul(h[i], k11), Partition(h[i], k11, k12))),
                RMul(g0[i], RDiv(RProd(<<R(2), h[i], h[i], k11, k12>>),
                                 Partition(h[i], k11, k12))))],
        flavour)

uv_2to1_k(k11, k12, h0, g0, flavour) ==
    uv_2to1_h(k11, k12, h0, g0, solve_cubic(poly_2to1(k11, k12, h0, g0)), flavour)

uv_2to1(params, xdata, flavour) ==
    IF ~HasConstants(params, flavour) THEN IndexError
    ELSE uv_2to1_k(params[1], secondary_constant(params, flavour),
                   xdata[1], xdata[2], flavour)

\* np.vstack of the coek models: mf_fit and mf.
stack_coek(free, obs) ==
    [status   |-> "ok",
     free     |-> free,
     fit      |-> <<Row(obs, "h"), Row(obs, "hs"), Row(obs, "he")>>,
     molefrac |-> <<Row(obs, "mf_h"), Row(obs, "mf_hs"), Row(obs, "mf_he")>>]

\* hs (eq 149) and he (eq 150) as fractions, at one observation
coek_hs(ke, rho, h0, h) ==
    RDiv(RProd(<<rho, h, RSq(RProd(<<h, ke, h0>>))>>),
         RSq(RSub(One, RProd(<<h, ke, h0>>))))

coek_he(ke, rho, h0, h) ==
    RDiv(RProd(<<R(2), rho, h, h, ke, h0>>), RSub(One, RProd(<<h, ke, h0>>)))

\* nmr_coek from the solved free monomer fraction h on
nmr_coek_h(ke, rho, h0, h) ==
    stack_coek(h,
        [i \in 1..Len(h0) |->
            [h     |-> h[i],
             hs    |-> coek_hs(ke, rho, h0[i], h[i]),
             he    |-> coek_he(ke, rho, h0[i], h[i]),
             mf_h  |-> h[i],
             mf_hs |-> coek_hs(ke, rho, h0[i], h[i]),
             mf_he |-> coek_he(ke, rho, h0[i], h[i])]])

nmr_coek(params, xdata, flavour) ==
    IF Len(params) < 2 THEN IndexError
    ELSE nmr_coek_h(params[1], params[2], xdata[1],
                    solve_cubic(poly_coek(params[1], params[2], xdata[1])))

\* uv_coek from the solved free monomer fraction h on: the fractions are
\* multiplied by h0 for the fit and divided by it again for display
uv_coek_h(ke, rho, h0, h) ==
    stack_coek(h,
        [i \in 1..Len(h0) |->
            [h     |-> RMul(h0[i], h[i]),
             hs    |-> RMul(h0[i], coek_hs(ke, rho, h0[i], h[i])),
             he    |-> RMul(h0[i], coek_he(ke, rho, h0[i], h[i])),
             mf_h  |-> RDiv(RMul(h0[i], h[i]), h0[i]),
             mf_hs |-> RDiv(RMul(h0[i], coek_hs(ke, rho, h0[i], h[i])), h0[i]),
             mf_he |-> RDiv(RMul(h0[i], coek_he(ke, rho, h0[i], h[i])), h0[i])]])

uv_coek(params, xdata, flavour) ==
    IF Len(params) < 2 THEN IndexError
    ELSE uv_coek_h(params[1], params[2], xdata[1],
                   solve_cubic(poly_coek(params[1], params[2], xdata[1])))

-----------------------------------------------------------------------------
(* The model factory: functions.py, construct *)

CatalogKeys ==
    {"nmrdata", "nmr1to1", "nmr1to2", "nmr2to1", "uvdata", "uv1to1", "uv1to2",
     "uv2to1", "nmrdimer", "uvdimer", "nmrcoek", "uvcoek", "inhibitor"}

\* The characters of the two keys whose entry is the bare string (key):
\* cls(*args) unpacks a string into its characters.
Chars(key) ==
    IF key = "nmrdata" THEN <<"n", "m", "r", "d", "a", "t", "a">>
    ELSE IF key = "uvdata" THEN <<"u", "v", "d", "a", "t", "a">>
    ELSE <<>>

ModelOf(key) ==
    CASE key = "nmr1to1"  -> "nmr_1to1"
      [] key = "nmr1to2"  -> "nmr_1to2"
      [] key = "nmr2to1"  -> "nmr_2to1"
      [] key = "uv1to1"   -> "uv_1to1"
      [] key = "uv1to2"   -> "uv_1to2"
      [] key = "uv2to1"   -> "uv_2to1"
      [] key = "nmrdimer" -> "nmr_dimer"
      [] key = "uvdimer"  -> "uv_dimer"
      [] key = "nmrcoek"  -> "nmr_coek"
      [] key = "uvcoek"   -> "uv_coek"
      [] key = "inhibitor" -> "inhibitor_response"
      [] OTHER -> None

\* A different table: a key outside the catalog falls back to the 1:1 NMR
\* entry.
args_select_fallback(key, norm, flavour) ==
    IF key \in {"nmrdimer", "uvdimer", "nmrcoek", "uvcoek"}
    THEN [found |-> TRUE, cls |-> "FunctionAgg",
          args |-> <<key, ModelOf(key), norm, flavour>>]
    ELSE [found |-> TRUE, cls |-> "FunctionBinding",
          args |-> <<key, "nmr_1to1", norm, flavour>>]

\* args_select[key]: the class name and the positional arguments of the
\* entry; a key that is not in the dict has no entry (the lookup raises
\* KeyError).
args_select(key, norm, flavour) ==
    CASE key \in {"nmrdata", "uvdata"} ->
            [found |-> TRUE, cls |-> "FunctionBinding", args |-> Chars(key)]
      [] key \in {"nmr1to1", "nmr1to2", "nmr2to1", "uv1to1", "uv1to2", "uv2to1"} ->
            [found |-> TRUE, cls |-> "FunctionBinding",
             args |-> <<key, ModelOf(key), norm, flavour>>]
      [] key \in {"nmrdimer", "uvdimer", "nmrcoek", "uvcoek"} ->
            [found |-> TRUE, cls |-> "FunctionAgg",
             args |-> <<key, ModelOf(key), norm, flavour>>]
      [] key = "inhibitor" ->
            [found |-> TRUE, cls |-> "FunctionInhibitorResponse",
             args |-> <<key, ModelOf(key)>>]
      [] OTHER -> [found |-> FALSE, cls |-> None, args |-> <<>>]

\* BaseFunction.__init__(self, fitter, f=None, normalise=True, flavour="none")
\* called with the positional arguments args by the class cls.
BaseFunction_init(cls, args) ==
    IF Len(args) < 1 \/ Len(args) > 4
    THEN [status |-> "TypeError", instance |-> None]
    ELSE [status |-> "ok",
          instance |-> [cls       |-> cls,
                        fitter    |-> args[1],
                        f         |-> IF Len(args) >= 2 THEN args[2] ELSE None,
                        normalise |-> IF Len(args) >= 3 THEN args[3] ELSE TRUE,
                        flavour   |-> IF Len(args) >= 4 THEN args[4] ELSE "none"]]

construct(key, norm, flavour) ==
    LET entry == args_select(key, norm, flavour)
    IN  IF ~entry.found
        THEN [status |-> "KeyError", instance |-> None]
        ELSE BaseFunction_init(entry.cls, entry.args)

-----------------------------------------------------------------------------
(* The 1:1 models.  Their values are complex numbers [re, im] over the
   rationals; dtype tells whether numpy holds the arrays as float or as
   complex (np.lib.scimath.sqrt gives a complex array as soon as one
   element of its argument is negative).  The models are called where the
   square roots they take are exactly representable. *)

IsSquareInt(n) == \E r \in 0..n : r * r = n

IntSqrt(n) == CHOOSE r \in 0..n : r * r = n

HasRSqrt(a) == IsFinite(a) /\ a[1] >= 0 /\ IsSquareInt(a[1]) /\ IsSquareInt(a[2])

\* np.sqrt of a real: nan for a negative argument
RSqrt(a) == IF HasRSqrt(a) THEN <<IntSqrt(a[1]), IntSqrt(a[2])>> ELSE NaN

Cx(re, im) == [re |-> re, im |-> im]

\* np.lib.scimath.sqrt, elementwise: the principal root
scimath_sqrt(a) ==
    IF IsFinite(a) /\ a[1] < 0 THEN Cx(Zero, RSqrt(RNeg(a))) ELSE Cx(RSqrt(a), Zero)

\* (g0 + h0 + (1/k))**2 - 4*(g0*h0), for one observation
disc_1to1(k, h0, g0) ==
    RSub(RSq(RSum(<<g0, h0, RDiv(One, k)>>)), RMul(R(4), RMul(g0, h0)))

\* 0.5*((g0 + h0 + (1/k)) - sq), for one observation
root_1to1(k, h0, g0, sq) ==
    Cx(RMul(RNorm(1, 2), RSub(RSum(<<g0, h0, RDiv(One, k)>>), sq.re)),
       RMul(RNorm(1, 2), RNeg(sq.im)))

hg_1to1(k, h0, g0) ==
    [i \in 1..Len(h0) |->
        root_1to1(k, h0[i], g0[i], scimath_sqrt(disc_1to1(k, h0[i], g0[i])))]

\* a complex row divided elementwise by a real row
CxRowDiv(row, by) ==
    [i \in 1..Len(row) |-> Cx(RDiv(row[i].re, by[i]), RDiv(row[i].im, by[i]))]

\* row / by for an array of the given dtype: a float array has no imaginary
\* part to divide, np.imag of the quotient is 0
ArrayDiv(dtype, row, by) ==
    IF dtype = "float"
    THEN [i \in 1..Len(row) |-> Cx(RDiv(row[i].re, by[i]), Zero)]
    ELSE CxRowDiv(row, by)

\* The lines the two models share, given the root hg as first computed:
\*   h = h0 - hg
\*   inds = np.imag(hg) > 0
\*   hg[inds] = np.sqrt(h0[inds] * g0[inds])
solve_1to1(k, h0, g0, hg) ==
    [dtype |-> IF \E i \in 1..Len(h0) : RLt(disc_1to1(k, h0[i], g0[i]), Zero)
               THEN "complex" ELSE "float",
     h |-> [i \in 1..Len(h0) |-> Cx(RSub(h0[i], hg[i].re), RNeg(hg[i].im))],
     hg |-> [i \in 1..Len(hg) |->
                IF RLt(Zero, hg[i].im)
                THEN Cx(RSqrt(RMul(h0[i], g0[i])), Zero) ELSE hg[i]]]

nmr_1to1_of(h0, s) ==
    [status |-> "ok", dtype |-> s.dtype,
     fit |-> <<ArrayDiv(s.dtype, s.h, h0), ArrayDiv(s.dtype, s.hg, h0)>>,
     molefrac |-> <<ArrayDiv(s.dtype, s.h, h0), ArrayDiv(s.dtype, s.hg, h0)>>]

nmr_1to1(params, xdata) ==
    IF Len(params) < 1 THEN IndexError
    ELSE nmr_1to1_of(xdata[1], solve_1to1(params[1], xdata[1], xdata[2],
                                         hg_1to1(params[1], xdata[1], xdata[2])))

uv_1to1_of(h0, s) ==
    [status |-> "ok", dtype |-> s.dtype,
     fit |-> <<s.h, s.hg>>,
     molefrac |-> <<ArrayDiv(s.dtype, s.h, h0), ArrayDiv(s.dtype, s.hg, h0)>>]

uv_1to1(params, xdata) ==
    IF Len(params) < 1 THEN IndexError
    ELSE uv_1to1_of(xdata[1], solve_1to1(params[1], xdata[1], xdata[2],
                                        hg_1to1(params[1], xdata[1], xdata[2])))

-----------------------------------------------------------------------------
(* The dimer aggregation models.  They are called where the square root
   they take is of a non-negative number and exactly representable, so that
   every array is a float array. *)

\* ((2*ke*h0 + 1) - sqrt(4*ke*h0 + 1))/(2*ke*ke*h0*h0), for one observation
dimer_h(ke, h0) ==
    RDiv(RSub(RAdd(RMul(RMul(R(2), ke), h0), One),
              RSqrt(RAdd(RMul(RMul(R(4), ke), h0), One))),
         RMul(RMul(RMul(RMul(R(2), ke), ke), h0), h0))

\* (h*((h*ke*h0)**2))/((1 - h*ke*h0)**2)
dimer_hs(ke, h0, h) ==
    RDiv(RMul(h, RSq(RMul(RMul(h, ke), h0))),
         RSq(RSub(One, RMul(RMul(h, ke), h0))))

\* (2*h*h*ke*h0)/(1 - h*ke*h0)
dimer_he(ke, h0, h) ==
    RDiv(RMul(RMul(RMul(RMul(R(2), h), h), ke), h0),
         RSub(One, RMul(RMul(h, ke), h0)))

RowOf(h0, f(_)) == [i \in 1..Len(h0) |-> f(h0[i])]

\* The same model with the branch for ke == 0 taken out.
nmr_dimer_unguarded(params, xdata) ==
    IF Len(params) < 1 THEN IndexError
    ELSE LET ke == params[1]
             h0 == xdata[1]
             H(c) == dimer_h(ke, c)
             Hs(c) == dimer_hs(ke, c, dimer_h(ke, c))
             He(c) == dimer_he(ke, c, dimer_h(ke, c))
             mf == <<RowOf(h0, H), RowOf(h0, Hs), RowOf(h0, He)>>
         IN  [status |-> "ok", fit |-> mf, molefrac |-> mf]

nmr_dimer(params, xdata) ==
    IF Len(params) < 1 THEN IndexError
    ELSE LET ke == params[1]
             h0 == xdata[1]
             Nought(c) == RMul(c, Zero)
             H(c) == dimer_h(ke, c)
             Hs(c) == dimer_hs(ke, c, dimer_h(ke, c))
             He(c) == dimer_he(ke, c, dimer_h(ke, c))
             mf == <<RowOf(h0, H), RowOf(h0, Hs), RowOf(h0, He)>>
         IN  IF ke = Zero
             THEN [status |-> "ok",
                   fit |-> <<RowOf(h0, Nought), RowOf(h0, Nought), RowOf(h0, Nought)>>,
                   molefrac |-> <<RowOf(h0, Nought), RowOf(h0, Nought),
                                  RowOf(h0, Nought)>>]
             ELSE [status |-> "ok", fit |-> mf, molefrac |-> mf]

uv_dimer(params, xdata) ==
    IF Len(params) < 1 THEN IndexError
    ELSE LET ke == params[1]
             h0 == xdata[1]
             Nought(c) == RMul(c, Zero)
             Hc(c) == RMul(c, dimer_h(ke, c))
             Hs(c) == RMul(c, dimer_hs(ke, c, dimer_h(ke, c)))
             He(c) == RMul(c, dimer_he(ke, c, dimer_h(ke, c)))
             HcF(c) == RDiv(Hc(c), c)
             HsF(c) == RDiv(Hs(c), c)
             HeF(c) == RDiv(He(c), c)
         IN  IF ke = Zero
             THEN [status |-> "ok",
                   fit |-> <<RowOf(h0, Nought), RowOf(h0, Nought), RowOf(h0, Nought)>>,
                   molefrac |-> <<RowOf(h0, Nought), RowOf(h0, Nought),
                                  RowOf(h0, Nought)>>]
             ELSE [status |-> "ok",
                   fit |-> <<RowOf(h0, Hc), RowOf(h0, Hs), RowOf(h0, He)>>,
                   molefrac |-> <<RowOf(h0, HcF), RowOf(h0, HsF), RowOf(h0, HeF)>>]

-----------------------------------------------------------------------------
(* The objective-function layer: functions.py.  Matrices are sequences of   *)
(* rows.  The least-squares step is exact, for one or two columns.          *)

\* self.f(params, xdata, flavour=self.flavour)
call_f(f, params, xdata, flavour) ==
    CASE f = "uv_1to2"  -> uv_1to2(params, xdata, flavour)
      [] f = "nmr_1to2" -> nmr_1to2(params, xdata, flavour)
      [] f = "uv_2to1"  -> uv_2to1(params, xdata, flavour)
      [] f = "nmr_2to1" -> nmr_2to1(params, xdata, flavour)
      [] f = "uv_coek"  -> uv_coek(params, xdata, flavour)
      [] f = "nmr_coek" -> nmr_coek(params, xdata, flavour)

\* "uv" in self.fitter, for the catalog keys
HasUv(key) == key \in {"uvdata", "uv1to1", "uv1to2", "uv2to1", "uvdimer", "uvcoek"}

\* An optional argument: left at its default None, or given.
NoArg == [given |-> FALSE, value |-> <<>>]
Arg(v) == [given |-> TRUE, value |-> v]

RECURSIVE DotTo(_, _, _)
DotTo(u, v, n) ==
    IF n = 0 THEN Zero ELSE RAdd(DotTo(u, v, n - 1), RMul(u[n], v[n]))

Dot(u, v) == DotTo(u, v, Len(u))

\* One column a: the solution from a.a and a.y.
lstsq_one(aa, ay) == IF aa = Zero THEN Zero ELSE RDiv(ay, aa)

\* Two columns a, b: the solution from their Gram matrix and a.y, b.y.  Rank
\* 2: the normal equations; rank 1: the minimum-norm solution A^T y / |A|^2;
\* rank 0: zero.
lstsq_two(aa, ab, bb, ay, by) ==
    IF RSub(RMul(aa, bb), RSq(ab)) # Zero
    THEN << RDiv(RSub(RMul(bb, ay), RMul(ab, by)), RSub(RMul(aa, bb), RSq(ab))),
            RDiv(RSub(RMul(aa, by), RMul(ab, ay)), RSub(RMul(aa, bb), RSq(ab))) >>
    ELSE IF RAdd(aa, bb) # Zero
    THEN << RDiv(ay, RAdd(aa, bb)), RDiv(by, RAdd(aa, bb)) >>
    ELSE << Zero, Zero >>

\* np.linalg.lstsq(A.T, Y.T)[0] for A of k rows (k = 1 or 2) and Y of n rows:
\* k rows of n coefficients.
lstsq(A, Y) ==
    IF Len(A) = 1
    THEN << [j \in 1..Len(Y) |-> lstsq_one(Dot(A[1], A[1]), Dot(A[1], Y[j]))] >>
    ELSE [s \in 1..2 |->
             [j \in 1..Len(Y) |->
                 lstsq_two(Dot(A[1], A[1]), Dot(A[1], A[2]), Dot(A[2], A[2]),
                           Dot(A[1], Y[j]), Dot(A[2], Y[j]))[s]]]

\* coeffs_raw[coeffs_raw < 0] = 0
clamp(c) ==
    [s \in 1..Len(c) |->
        [j \in 1..Len(c[s]) |-> IF RLt(c[s][j], Zero) THEN Zero ELSE c[s][j]]]

\* not self.normalise and "uv" in self.fitter
Clamps(self) == ~self.normalise /\ HasUv(self.fitter)

RECURSIVE MixTo(_, _, _, _, _)
MixTo(raw, c, j, i, s) ==
    IF s = 0 THEN Zero
    ELSE RAdd(MixTo(raw, c, j, i, s - 1), RMul(raw[s][i], c[s][j]))

\* raw.T.dot(c).T
matdot(raw, c) ==
    [j \in 1..Len(c[1]) |-> [i \in 1..Len(raw[1]) |-> MixTo(raw, c, j, i, Len(raw))]]

\* fit - ydata
MatSub(a, b) == [j \in 1..Len(a) |-> [i \in 1..Len(a[j]) |-> RSub(a[j][i], b[j][i])]]

RECURSIVE SquareRowTo(_, _)
SquareRowTo(r, n) == IF n = 0 THEN Zero ELSE RAdd(SquareRowTo(r, n - 1), RSq(r[n]))

RECURSIVE SquareTo(_, _)
SquareTo(m, n) ==
    IF n = 0 THEN Zero ELSE RAdd(SquareTo(m, n - 1), SquareRowTo(m[n], Len(m[n])))

\* np.square(residuals).sum()
\* Half the sum of squares: another reduction of the residuals.
square_sum_halved(residuals) == RDiv(SquareTo(residuals, Len(residuals)), R(2))

\* np.square(residuals).sum()
square_sum(residuals) == SquareTo(residuals, Len(residuals))

Scale(row, c) == [j \in 1..Len(row) |-> RMul(row[j], c)]
RowAdd(a, b) == [j \in 1..Len(a) |-> RAdd(a[j], b[j])]
RowDiv(a, c) == [j \in 1..Len(a) |-> RDiv(a[j], c)]

\* No expansion: the folded row is reported as it is.
expand_coeffs_folded(self, coeffs) == coeffs

\* The coefficients after the additive flavours are expanded.
expand_coeffs(self, coeffs) ==
    IF self.flavour = "add" \/ self.flavour = "stat"
    THEN IF self.normalise
         THEN <<coeffs[1], Scale(coeffs[1], R(2))>>
         ELSE <<coeffs[1], coeffs[2], Scale(coeffs[2], R(2))>>
    ELSE coeffs

\* The rows stacked on the host row h; None for any other number of rows.
stack_on_host(h, coeffs) ==
    IF Len(coeffs) = 1
    THEN [status |-> "ok", none |-> FALSE, value |-> <<h, RowAdd(h, coeffs[1])>>]
    ELSE IF Len(coeffs) = 2
    THEN [status |-> "ok", none |-> FALSE,
          value |-> <<h, RowAdd(h, coeffs[1]), RowAdd(h, coeffs[2])>>]
    ELSE [status |-> "ok", none |-> TRUE, value |-> <<>>]

\* BindingMixin.format_coeffs.  ydata_init = None gives h = np.copy(None), on
\* which the division and the additions of the normalised branch raise
\* TypeError; with neither, the branch falls through and returns None.
BindingMixin_format_coeffs(self, coeffs, ydata_init, h0_init) ==
    IF ~self.normalise
    THEN [status |-> "ok", none |-> FALSE, value |-> expand_coeffs(self, coeffs)]
    ELSE IF ~ydata_init.given
    THEN IF \/ HasUv(self.fitter) /\ h0_init.given
            \/ Len(expand_coeffs(self, coeffs)) \in {1, 2}
         THEN [status |-> "TypeError", none |-> FALSE, value |-> <<>>]
         ELSE [status |-> "ok", none |-> TRUE, value |-> <<>>]
    ELSE stack_on_host(IF HasUv(self.fitter) /\ h0_init.given
                       THEN RowDiv(ydata_init.value, h0_init.value)
                       ELSE ydata_init.value,
                       expand_coeffs(self, coeffs))

\* AggMixin.format_coeffs
AggMixin_format_coeffs(self, coeffs, ydata_init, h0_init) ==
    [status |-> "ok", none |-> FALSE, value |-> coeffs]

\* return fit, residuals, coeffs_raw, molefrac_raw, coeffs, molefrac
detailed(fit, residuals, coeffs_raw, molefrac_raw, coeffs, molefrac) ==
    IF coeffs.status # "ok" THEN [kind |-> coeffs.status]
    ELSE [kind         |-> "tuple",
          len          |-> 6,
          fit          |-> fit,
          residuals    |-> residuals,
          coeffs_raw   |-> coeffs_raw,
          molefrac_raw |-> molefrac_raw,
          coeffs       |-> [none |-> coeffs.none, value |-> coeffs.value],
          molefrac     |-> molefrac]

\* BindingMixin.objective from the fit on
Binding_return(self, xdata, ydata, scalar, ydata_init, molefrac_raw, molefrac, coeffs_raw, fit) ==
    IF scalar
    THEN [kind |-> "scalar", value |-> square_sum(MatSub(fit, ydata))]
    ELSE detailed(fit, MatSub(fit, ydata), coeffs_raw, molefrac_raw,
                  BindingMixin_format_coeffs(self, coeffs_raw, ydata_init,
                                             Arg(xdata[1][1])),
                  molefrac)

\* BindingMixin.objective from coeffs_raw on
Binding_fit(self, xdata, ydata, scalar, ydata_init, molefrac_raw, molefrac, coeffs_raw) ==
    Binding_return(self, xdata, ydata, scalar, ydata_init,
                   molefrac_raw, molefrac, coeffs_raw, matdot(molefrac_raw, coeffs_raw))

\* coeffs_raw: fit_coeffs itself when given, else the least-squares solution;
\* clamped in place for non-normalised UV fits.
Binding_coeffs(self, ydata, fit_coeffs, molefrac_raw) ==
    IF Clamps(self)
    THEN clamp(IF fit_coeffs.given THEN fit_coeffs.value ELSE lstsq(molefrac_raw, ydata))
    ELSE IF fit_coeffs.given THEN fit_coeffs.value ELSE lstsq(molefrac_raw, ydata)

\* BindingMixin.objective from molefrac_raw on
Binding_regress(self, xdata, ydata, scalar, ydata_init, fit_coeffs, molefrac_raw, molefrac) ==
    Binding_fit(self, xdata, ydata, scalar, ydata_init, molefrac_raw, molefrac,
                Binding_coeffs(self, ydata, fit_coeffs, molefrac_raw))

\* BindingMixin.objective from the model's result on
Binding_model(self, xdata, ydata, scalar, ydata_init, fit_coeffs, m) ==
    IF m.status # "ok" THEN [kind |-> m.status]
    ELSE Binding_regress(self, xdata, ydata, scalar, ydata_init, fit_coeffs,
                         IF self.normalise THEN Tail(m.fit) ELSE m.fit, m.molefrac)

BindingMixin_objective(self, params, xdata, ydata, scalar, ydata_init, fit_coeffs) ==
    Binding_model(self, xdata, ydata, scalar, ydata_init, fit_coeffs,
                  call_f(self.f, params, xdata, self.flavour))

\* The caller's fit_coeffs array after the call: coeffs_raw is that array, and
\* the clamp writes into it.
Binding_fit_coeffs_after(self, fit_coeffs) ==
    IF fit_coeffs.given /\ Clamps(self) THEN Arg(clamp(fit_coeffs.value)) ELSE fit_coeffs

\* hmat = np.array([h + he/2, hs + he/2])
hmat_of(raw) ==
    << [i \in 1..Len(raw[1]) |-> RAdd(raw[1][i], RDiv(raw[3][i], R(2)))],
       [i \in 1..Len(raw[1]) |-> RAdd(raw[2][i], RDiv(raw[3][i], R(2)))] >>

\* AggMixin.objective from the fit on
Agg_return(self, xdata, ydata, scalar, ydata_init, hmat, molefrac, coeffs_raw, fit) ==
    IF scalar
    THEN [kind |-> "scalar", value |-> square_sum(MatSub(fit, ydata))]
    ELSE detailed(fit, MatSub(fit, ydata), coeffs_raw, hmat,
                  AggMixin_format_coeffs(self, coeffs_raw, ydata_init, Arg(xdata[1][1])),
                  molefrac)

\* AggMixin.objective from coeffs_raw on
Agg_fit(self, xdata, ydata, scalar, ydata_init, hmat, molefrac, coeffs_raw) ==
    Agg_return(self, xdata, ydata, scalar, ydata_init, hmat, molefrac, coeffs_raw,
               matdot(hmat, coeffs_raw))

\* AggMixin.objective from hmat on
Agg_regress(self, xdata, ydata, scalar, ydata_init, fit_coeffs, hmat, molefrac) ==
    Agg_fit(self, xdata, ydata, scalar, ydata_init, hmat, molefrac,
            IF fit_coeffs.given THEN fit_coeffs.value ELSE lstsq(hmat, ydata))

\* AggMixin.objective from the model's result on
Agg_model(self, xdata, ydata, scalar, ydata_init, fit_coeffs, m) ==
    IF m.status # "ok" THEN [kind |-> m.status]
    ELSE Agg_regress(self, xdata, ydata, scalar, ydata_init, fit_coeffs,
                     hmat_of(m.fit), m.molefrac)

AggMixin_objective(self, params, xdata, ydata, scalar, ydata_init, fit_coeffs) ==
    Agg_model(self, xdata, ydata, scalar, ydata_init, fit_coeffs,
              call_f(self.f, params, xdata, self.flavour))

-----------------------------------------------------------------------------
(* The inhibitor-response strategy: functions.py *)

\* 10 ** e for a whole exponent e
Pow10(e) == IF e[1] >= 0 THEN R(10 ^ e[1]) ELSE RNorm(1, 10 ^ (-e[1]))

\* response = 100/(1+10**((logIC50 - inhibitor)*hillslope)), with
\* hillslope = params[0], logIC50 = params[1] and inhibitor = xdata[1]
inhibitor_response(params, xdata) ==
    IF Len(params) < 2 THEN IndexError
    ELSE [status |-> "ok",
          fit |-> [i \in 1..Len(xdata[2]) |->
                      RDiv(R(100),
                           RAdd(One, Pow10(RMul(RSub(params[2], xdata[2][i]),
                                                params[1]))))]]

\* yfit - ydata: the one row of yfit against every row of ydata
RowSub(yfit, ydata) ==
    [j \in 1..Len(ydata) |->
        [i \in 1..Len(ydata[j]) |-> RSub(yfit[1][i], ydata[j][i])]]

\* FunctionInhibitorResponse.objective from yfit on
Inhibitor_return(ydata, scalar, yfit) ==
    IF scalar
    THEN [kind |-> "scalar", value |-> square_sum(RowSub(yfit, ydata))]
    ELSE [kind      |-> "tuple",
          len       |-> 4,
          fit       |-> yfit,
          residuals |-> RowSub(yfit, ydata),
          coeffs    |-> <<Zero>>,
          molefrac  |-> << <<Zero>> >>]

\* FunctionInhibitorResponse.objective from the model's result on
Inhibitor_model(ydata, scalar, m) ==
    IF m.status # "ok" THEN [kind |-> m.status]
    ELSE Inhibitor_return(ydata, scalar, <<m.fit>>)

FunctionInhibitorResponse_objective(self, params, xdata, ydata, scalar) ==
    Inhibitor_model(ydata, scalar, inhibitor_response(params, xdata))

-----------------------------------------------------------------------------
(* The helpers: helpers.py *)

\* normalise with the first value of the first row taken from every row
normalise_by_first_row(data) ==
    [j \in 1..Len(data) |-> [i \in 1..Len(data[j]) |-> RSub(data[j][i], data[1][1])]]

\* normalise: every row less its first value
normalise(data) ==
    [j \in 1..Len(data) |-> [i \in 1..Len(data[j]) |-> RSub(data[j][i], data[j][1])]]

\* denormalise: data_norm plus the first value of every row of data; a
\* one-row data_norm is repeated for every row of data
denormalise(data, data_norm) ==
    [j \in 1..Len(data) |->
        [i \in 1..Len(data[j]) |->
            RAdd(data_norm[IF Len(data_norm) = 1 THEN 1 ELSE j][i], data[j][1])]]

-----------------------------------------------------------------------------
(* The fit driver: fitter.py.  An attribute is [is, value]: absent (never    *)
(* assigned), None, or a value.                                              *)

Absent == [is |-> "absent", value |-> <<>>]
PyNone == [is |-> "None", value |-> <<>>]
Val(v) == [is |-> "value", value |-> v]

\* Fitter.__init__
Fitter_init(xdata, ydata, function, normalise_opt) ==
    [xdata      |-> xdata,
     ydata      |-> ydata,
     function   |-> function,
     normalise  |-> normalise_opt,
     params     |-> PyNone,
     time       |-> PyNone,
     fit        |-> PyNone,
     residuals  |-> PyNone,
     coeffs     |-> PyNone,
     molefrac   |-> PyNone,
     params_raw |-> Absent]           \* _params_raw

\* Fitter._preprocess
Fitter_preprocess(self, ydata) ==
    IF self.normalise THEN normalise(ydata) ELSE ydata

\* No postprocessing: the fit is stored as the objective returned it.
Fitter_postprocess_raw(self, ydata, yfit) == yfit

\* Fitter._postprocess
Fitter_postprocess(self, ydata, yfit) ==
    IF self.normalise THEN denormalise(ydata, yfit) ELSE yfit

\* A dict is the sequence of its <<name, value>> items in insertion order.
\* Names are compared as Python compares str: by code point, a proper prefix
\* first.
CodePoints(name) ==
    CASE name = "IC50"      -> <<73, 67, 53, 48>>
      [] name = "hillslope" -> <<104, 105, 108, 108, 115, 108, 111, 112, 101>>
      [] name = "logIC50"   -> <<108, 111, 103, 73, 67, 53, 48>>

RECURSIVE SeqLess(_, _)
SeqLess(u, v) ==
    IF v = <<>> THEN FALSE
    ELSE IF u = <<>> THEN TRUE
    ELSE IF u[1] # v[1] THEN u[1] < v[1]
    ELSE SeqLess(Tail(u), Tail(v))

StrLess(a, b) == SeqLess(CodePoints(a), CodePoints(b))

RECURSIVE InsertItem(_, _)
InsertItem(item, s) ==
    IF s = <<>> THEN <<item>>
    ELSE IF StrLess(item[1], s[1][1]) THEN <<item>> \o s
    ELSE <<s[1]>> \o InsertItem(item, Tail(s))

RECURSIVE SortItems(_)
SortItems(d) ==
    IF d = <<>> THEN <<>>
    ELSE InsertItem(d[Len(d)], SortItems(SubSeq(d, 1, Len(d) - 1)))

\* The items as inserted: sorted_items without the sorting.
items_as_inserted(d) == d

\* sorted(params_init.items())
sorted_items(d) == SortItems(d)

\* sorted(params_init)
sorted_keys(d) == [i \in 1..Len(d) |-> SortItems(d)[i][1]]

dict_keys(d) == {d[j][1] : j \in 1..Len(d)}
dict_get(d, name) == d[CHOOSE j \in 1..Len(d) : d[j][1] = name][2]

\* run_scipy, the loop that builds p
initial_vector(params_init) ==
    [i \in 1..Len(params_init) |-> sorted_items(params_init)[i][2]]

\* The keyword scalar is not among the arguments of the calls
\* objective(.., detailed=True, force_molefrac=True): it takes the default of
\* the strategy's signature.
default_scalar(function) == function.cls = "FunctionBinding"

\* self.function.objective(params, x, y, scalar), no further argument given
objective(function, params, xdata, ydata, scalar) ==
    CASE function.cls = "FunctionBinding" ->
            BindingMixin_objective(function, params, xdata, ydata, scalar, NoArg, NoArg)
      [] function.cls = "FunctionAgg" ->
            AggMixin_objective(function, params, xdata, ydata, scalar, NoArg, NoArg)
      [] function.cls = "FunctionInhibitorResponse" ->
            FunctionInhibitorResponse_objective(function, params, xdata, ydata, scalar)

\* a, b, c, d = ret
unpack4(ret) ==
    IF ret.kind = "tuple" THEN (IF ret.len = 4 THEN "ok" ELSE "ValueError")
    ELSE IF ret.kind = "scalar" THEN "TypeError"
    ELSE ret.kind

\* What a call objective(.., detailed=True, force_molefrac=True) returns: a
\* number, or a tuple of so many values.
returned_shape(function) ==
    CASE function.cls = "FunctionBinding" -> [kind |-> "scalar"]
      [] function.cls = "FunctionAgg" -> [kind |-> "tuple", len |-> 6]
      [] function.cls = "FunctionInhibitorResponse" -> [kind |-> "tuple", len |-> 4]

\* molefrac with the host row on top: ones less the column sums
ColSumTo(m, i, n) == RSum([s \in 1..n |-> m[s][i]])
with_host_row(molefrac) ==
    << [i \in 1..Len(molefrac[1]) |->
           RSub(One, ColSumTo(molefrac, i, Len(molefrac)))] >> \o molefrac

\* run_scipy, the result fields a run stores without the last: the variant
\* that leaves the mole fractions as they were.
run_scipy_store_partial(self, elapsed, result_x, fit_norm, residuals, coeffs, molefrac) ==
    [self EXCEPT !.time       = Val(elapsed),
                 !.params_raw = Val(result_x),
                 !.fit        = Val(Fitter_postprocess(self, self.ydata, fit_norm)),
                 !.residuals  = Val(residuals),
                 !.coeffs     = Val(coeffs)]

\* run_scipy storing the denormalised fit over the dependent variables as
\* well.
run_scipy_store_over_data(self, elapsed, result_x, fit_norm, residuals, coeffs, molefrac) ==
    [self EXCEPT !.time       = Val(elapsed),
                 !.params_raw = Val(result_x),
                 !.fit        = Val(Fitter_postprocess(self, self.ydata, fit_norm)),
                 !.ydata      = Fitter_postprocess(self, self.ydata, fit_norm),
                 !.residuals  = Val(residuals),
                 !.coeffs     = Val(coeffs),
                 !.molefrac   = Val(with_host_row(molefrac))]

\* run_scipy, from self.time to self.molefrac
run_scipy_store(self, elapsed, result_x, fit_norm, residuals, coeffs, molefrac) ==
    [self EXCEPT !.time       = Val(elapsed),
                 !.params_raw = Val(result_x),
                 !.fit        = Val(Fitter_postprocess(self, self.ydata, fit_norm)),
                 !.residuals  = Val(residuals),
                 !.coeffs     = Val(coeffs),
                 !.molefrac   = Val(with_host_row(molefrac))]

\* The debug arrays of statistics hold this many values each.
MatlabLen == 228

ArraySize(a) == Len(a) * Len(a[1])

\* One element of ci_percent.  With the debug arrays in place of the shifted
\* and the unshifted fit, element i is
\*     100 * t(d_free) * sqrt(m_diag[i] * ssr / (d_free - 1)) / params[i]
\* where m_diag[i] is params[i]^2 * d^2 times a constant the debug arrays fix
\* for the position i: the element is a function of i, the number of
\* parameters, params[i], ssr and d_free, and is kept as these.
ci_element(i, params, ssr, d_free) ==
    [index |-> i, of |-> Len(params), param |-> params[i], ssr |-> ssr, d_free |-> d_free]

\* statistics from ssr on
statistics_ci(self, params) ==
    IF self.residuals.is # "value" THEN [status |-> "TypeError", ci |-> <<>>, printoptions |-> TRUE]
    ELSE IF self.coeffs.is # "value" THEN [status |-> "AttributeError", ci |-> <<>>, printoptions |-> TRUE]
    ELSE [status |-> "ok",
          ci |-> [i \in 1..Len(params) |->
                     ci_element(i, params, square_sum(self.residuals.value),
                                ArraySize(self.ydata) - Len(params)
                                    - Len(self.coeffs.value))],
          printoptions |-> TRUE]

\* statistics, the loop over the parameters: the objective's result is
\* unpacked into four; for the first two parameters the shifted fit is then
\* replaced by a debug array, for a later one it is subtracted from a debug
\* array of another length.
statistics_loop(self, params) ==
    IF Len(params) >= 1 /\ unpack4(returned_shape(self.function)) # "ok"
    THEN [status |-> unpack4(returned_shape(self.function)), ci |-> <<>>,
          printoptions |-> TRUE]
    ELSE IF Len(params) >= 3 /\ Len(self.ydata[1]) \notin {1, MatlabLen}
    THEN [status |-> "ValueError", ci |-> <<>>, printoptions |-> TRUE]
    ELSE statistics_ci(self, params)

\* statistics of a lenient kind: an empty result where _params_raw is absent.
statistics_lenient(self) ==
    IF self.params_raw.is = "absent"
    THEN [status |-> "ok", ci |-> <<>>, printoptions |-> FALSE]
    ELSE statistics_loop(self, self.params_raw.value)

\* Fitter.statistics
statistics(self) ==
    IF self.params_raw.is = "absent"
    THEN [status |-> "AttributeError", ci |-> <<>>, printoptions |-> FALSE]
    ELSE statistics_loop(self, self.params_raw.value)

\* d = np.float64(1e-6) is 1/DeltaInv
DeltaInv == 1000000

Delta == <<1, DeltaInv>>

\* params_shift of iteration i: a copy of params with params[i]*(1 + d) at i
params_shift(params, i) ==
    [j \in 1..Len(params) |->
        IF j = i THEN RMul(params[j], RAdd(One, Delta)) ELSE params[j]]

\* A different method: the shifted vector is built in the stored vector
\* itself (params_shift = params in place of np.copy(params)).
statistics_self_inplace(self) ==
    IF self.params_raw.is = "value" /\ Len(self.params_raw.value) >= 1
    THEN [self EXCEPT !.params_raw.value = params_shift(@, 1)]
    ELSE self

\* The Fitter after a call of statistics, normal or not: the method assigns
\* no attribute of self; params_shift is a copy, y and fit_shift are arrays
\* of their own or read only.
statistics_self(self) == self

\* The iterations of the loop of statistics that are entered: none without
\* _params_raw, the first when the unpacking of the objective's result
\* raises, the first three when the subtraction of the third raises.
statistics_entered(self) ==
    IF self.params_raw.is = "absent" THEN 0
    ELSE IF Len(self.params_raw.value) >= 1 /\ unpack4(returned_shape(self.function)) # "ok"
    THEN 1
    ELSE IF Len(self.params_raw.value) >= 3 /\ Len(self.ydata[1]) \notin {1, MatlabLen}
    THEN 3
    ELSE Len(self.params_raw.value)

\* The arguments of the calls of self.function.objective that statistics
\* makes, in order: objective(params_shift, x, y, detailed=True,
\* force_molefrac=True).
statistics_evals(self) ==
    [i \in 1..statistics_entered(self) |->
        [params |-> params_shift(self.params_raw.value, i),
         xdata |-> self.xdata,
         ydata |-> Fitter_preprocess(self, self.ydata),
         fit_coeffs |-> NoArg]]

\* The iterations of the loop of statistics that reach diffs.append: all of
\* them when the loop ends, those before the one that raises otherwise.  An
\* exception raised after the loop leaves the loop complete.
statistics_completed(self) ==
    IF self.params_raw.is = "absent" THEN 0
    ELSE IF Len(self.params_raw.value) >= 1 /\ unpack4(returned_shape(self.function)) # "ok"
    THEN 0
    ELSE IF Len(self.params_raw.value) >= 3 /\ Len(self.ydata[1]) \notin {1, MatlabLen}
    THEN 2
    ELSE Len(self.params_raw.value)

\* diffs, one entry per completed iteration: which array is the shifted fit,
\* which array is subtracted from it, and the denominator pi_shift - pi.
statistics_diffs(self) ==
    [i \in 1..statistics_completed(self) |->
        [fit_shift |-> CASE i = 1 -> "matlab_fit_shift_0"
                         [] i = 2 -> "matlab_fit_shift_1"
                         [] OTHER -> "objective",
         fit |-> "matlab_fit",
         denom |-> RSub(params_shift(self.params_raw.value, i)[i],
                        self.params_raw.value[i])]]

\* run_scipy, the dict stored in self.params
params_dict(params_init, result_x, ci) ==
    [name \in dict_keys(params_init) |->
        [value  |-> result_x[CHOOSE i \in 1..Len(params_init) :
                                 sorted_keys(params_init)[i] = name],
         stderr |-> ci[CHOOSE i \in 1..Len(params_init) :
                           sorted_keys(params_init)[i] = name],
         init   |-> dict_get(params_init, name)]]

-----------------------------------------------------------------------------
(* Calls of construct *)

Flavours == {"none", "add", "noncoop", "stat"}

\* Keys a caller may pass: the catalog, and keys outside it.
UnknownKeys == {"nmr1to3", "uv1to1 ", "NMR1TO1", ""}
CallKeys == CatalogKeys \cup UnknownKeys

CtorIdle == [called |-> FALSE, key |-> "", normalise |-> TRUE, flavour |-> "none",
             res |-> [status |-> "none", instance |-> None]]

CtorCalls ==
    {[called |-> FALSE, key |-> k, normalise |-> b, flavour |-> fl,
      res |-> [status |-> "none", instance |-> None]] :
        k \in CallKeys, b \in BOOLEAN, fl \in Flavours \cup {"coop"}}

Construct ==
    /\ ~ctor.called
    /\ ctor' = [ctor EXCEPT !.called = TRUE,
                            !.res = construct(ctor.key, ctor.normalise, ctor.flavour)]
    /\ UNCHANGED <<hlp, mdl, obj, fit_vars>>

-----------------------------------------------------------------------------
(* Calls of the cubic-based equilibrium models *)

ConcMax == 2
NObs == 2

KVals == {R(k) : k \in {-2, -1, 1, 2}}

ParamVecs == {<<a>> : a \in KVals} \cup {<<a, b>> : a \in KVals, b \in KVals}

CubicModels == {"uv_1to2", "nmr_1to2", "uv_2to1", "nmr_2to1", "uv_coek", "nmr_coek"}

\* The parameter vector is long enough for the model to read its constants.
ArityOK(model, params, flavour) ==
    IF model \in {"uv_coek", "nmr_coek"} THEN Len(params) >= 2
    ELSE Len(params) >= 1 /\ (flavour \in {"noncoop", "stat"} \/ Len(params) >= 2)

Conc == {R(c) : c \in 0..ConcMax}

\* The constants and totals whose cubic has exactly representable roots
\* (the 2:1 cubic is the 1:2 cubic with host and guest totals exchanged).
Solvable12 ==
    {q \in {<<k11, k12, h0, g0>> :
                k11 \in KVals, k12 \in KVals \cup {RDiv(k, R(4)) : k \in KVals},
                h0 \in Conc, g0 \in Conc} :
        np_roots(poly_1to2(q[1], q[2], <<q[3]>>, <<q[4]>>)[1]).known}

SolvableCoek ==
    {q \in {<<ke, rho, h0>> : ke \in KVals, rho \in KVals, h0 \in Conc} :
        np_roots(poly_coek(q[1], q[2], <<q[3]>>)[1]).known}

\* Every observation's cubic has exactly representable roots.
InDomain(model, params, xdata, flavour) ==
    ArityOK(model, params, flavour) =>
        \A i \in 1..Len(xdata[1]) :
            CASE model \in {"uv_1to2", "nmr_1to2"} ->
                    <<params[1], secondary_constant(params, flavour),
                      xdata[1][i], xdata[2][i]>> \in Solvable12
              [] model \in {"uv_2to1", "nmr_2to1"} ->
                    <<params[1], secondary_constant(params, flavour),
                      xdata[2][i], xdata[1][i]>> \in Solvable12
              [] OTHER ->
                    <<params[1], params[2], xdata[1][i]>> \in SolvableCoek

NonDecreasing ==
    {s \in {t : t \in [1..NObs -> 0..ConcMax]} :
        \A i \in 1..(NObs - 1) : s[i] <= s[i + 1]}

\* Titrations (host total constant, guest total rising) for the binding
\* models; dilution series (host total rising, no guest) for the others.
Datasets(model) ==
    IF model \in {"uv_coek", "nmr_coek"}
    THEN {<< [i \in 1..NObs |-> R(hs[i])], [i \in 1..NObs |-> Zero] >> :
            hs \in NonDecreasing}
    ELSE {<< [i \in 1..NObs |-> R(c)], [i \in 1..NObs |-> R(gs[i])] >> :
            c \in 0..ConcMax, gs \in NonDecreasing}

MdlIdle == [called |-> FALSE, model |-> "", params |-> <<>>, xdata |-> <<>>,
            flavour |-> "none", out |-> [status |-> "none"]]

MdlCall(m, ps, fl, x) ==
    [called |-> FALSE, model |-> m, params |-> ps, flavour |-> fl, xdata |-> x,
     out |-> [status |-> "none"]]

Call_uv_1to2 ==
    /\ ~mdl.called /\ mdl.model = "uv_1to2"
    /\ mdl' = [mdl EXCEPT !.called = TRUE,
                          !.out = uv_1to2(mdl.params, mdl.xdata, mdl.flavour)]
    /\ UNCHANGED <<hlp, ctor, obj, fit_vars>>

Call_nmr_1to2 ==
    /\ ~mdl.called /\ mdl.model = "nmr_1to2"
    /\ mdl' = [mdl EXCEPT !.called = TRUE,
                          !.out = nmr_1to2(mdl.params, mdl.xdata, mdl.flavour)]
    /\ UNCHANGED <<hlp, ctor, obj, fit_vars>>

Call_uv_2to1 ==
    /\ ~mdl.called /\ mdl.model = "uv_2to1"
    /\ mdl' = [mdl EXCEPT !.called = TRUE,
                          !.out = uv_2to1(mdl.params, mdl.xdata, mdl.flavour)]
    /\ UNCHANGED <<hlp, ctor, obj, fit_vars>>

Call_nmr_2to1 ==
    /\ ~mdl.called /\ mdl.model = "nmr_2to1"
    /\ mdl' = [mdl EXCEPT !.called = TRUE,
                          !.out = nmr_2to1(mdl.params, mdl.xdata, mdl.flavour)]
    /\ UNCHANGED <<hlp, ctor, obj, fit_vars>>

Call_uv_coek ==
    /\ ~mdl.called /\ mdl.model = "uv_coek"
    /\ mdl' = [mdl EXCEPT !.called = TRUE,
                          !.out = uv_coek(mdl.params, mdl.xdata, mdl.flavour)]
    /\ UNCHANGED <<hlp, ctor, obj, fit_vars>>

Call_nmr_coek ==
    /\ ~mdl.called /\ mdl.model = "nmr_coek"
    /\ mdl' = [mdl EXCEPT !.called = TRUE,
                          !.out = nmr_coek(mdl.params, mdl.xdata, mdl.flavour)]
    /\ UNCHANGED <<hlp, ctor, obj, fit_vars>>

-----------------------------------------------------------------------------
(* Calls of the 1:1 models *)

OneToOneModels == {"nmr_1to1", "uv_1to1"}

\* The discriminant of every observation has an exactly representable root.
InDomain_1to1(params, xdata) ==
    \A i \in 1..Len(xdata[1]) :
        HasRSqrt(<<Abs(disc_1to1(params[1], xdata[1][i], xdata[2][i])[1]),
                   disc_1to1(params[1], xdata[1][i], xdata[2][i])[2]>>)

Call_nmr_1to1 ==
    /\ ~mdl.called /\ mdl.model = "nmr_1to1"
    /\ mdl' = [mdl EXCEPT !.called = TRUE,
                          !.out = nmr_1to1(mdl.params, mdl.xdata)]
    /\ UNCHANGED <<hlp, ctor, obj, fit_vars>>

Call_uv_1to1 ==
    /\ ~mdl.called /\ mdl.model = "uv_1to1"
    /\ mdl' = [mdl EXCEPT !.called = TRUE,
                          !.out = uv_1to1(mdl.params, mdl.xdata)]
    /\ UNCHANGED <<hlp, ctor, obj, fit_vars>>

-----------------------------------------------------------------------------
(* Calls of the dimer models *)

DimerModels == {"nmr_dimer", "uv_dimer"}

DimerParams == {<<ke>> : ke \in KVals \cup {Zero}}

\* Host totals; an array may hold inf and nan.
DimerData == {<<h0>> : h0 \in [1..NObs -> Conc \cup {Inf, NaN}]}

\* For ke # 0: 4*ke*h0 + 1 has an exactly representable real root.
InDomain_dimer(params, xdata) ==
    \/ params[1] = Zero
    \/ \A i \in 1..Len(xdata[1]) :
          HasRSqrt(RAdd(RMul(RMul(R(4), params[1]), xdata[1][i]), One))

Call_nmr_dimer ==
    /\ ~mdl.called /\ mdl.model = "nmr_dimer"
    /\ mdl' = [mdl EXCEPT !.called = TRUE,
                          !.out = nmr_dimer(mdl.params, mdl.xdata)]
    /\ UNCHANGED <<hlp, ctor, obj, fit_vars>>

Call_uv_dimer ==
    /\ ~mdl.called /\ mdl.model = "uv_dimer"
    /\ mdl' = [mdl EXCEPT !.called = TRUE,
                          !.out = uv_dimer(mdl.params, mdl.xdata)]
    /\ UNCHANGED <<hlp, ctor, obj, fit_vars>>

-----------------------------------------------------------------------------
(* A round trip through the helpers *)

MaxVars == 2

\* Values of a dependent variable.
HelperVals == {R(-1), RNorm(1, 2), R(2)}

\* The n x m arrays of 1..MaxVars dependent variables and 1..NObs
\* observations.
HelperData ==
    UNION {[1..n -> [1..m -> HelperVals]] : n \in 1..MaxVars, m \in 1..NObs}

HlpIdle == [pc |-> "idle", data |-> <<>>, norm |-> <<>>, denorm |-> <<>>]

\* data_norm = normalise(data)
Call_normalise ==
    /\ hlp.pc = "start"
    /\ hlp' = [hlp EXCEPT !.pc = "normalised", !.norm = normalise(hlp.data)]
    /\ UNCHANGED <<ctor, mdl, obj, fit_vars>>

\* denormalise(data, data_norm)
Call_denormalise ==
    /\ hlp.pc = "normalised"
    /\ hlp' = [hlp EXCEPT !.pc = "done", !.denorm = denormalise(hlp.data, hlp.norm)]
    /\ UNCHANGED <<ctor, mdl, obj, fit_vars>>

-----------------------------------------------------------------------------
(* Calls of the binding and the aggregation objective *)

\* The number of columns the regression has for an instance.
Columns(self) ==
    IF self.cls = "FunctionAgg" THEN 2
    ELSE (IF self.flavour \in {"add", "stat"} THEN 2 ELSE 3)
         - (IF self.normalise THEN 1 ELSE 0)

\* Instances of the two strategies over the cubic models, with at most two
\* regression columns.
ObjSelves ==
    {s \in {construct(k, n, fl).instance :
                k \in {"nmr1to2", "uv1to2", "nmr2to1", "uv2to1", "nmrcoek", "uvcoek"},
                n \in BOOLEAN, fl \in Flavours} :
        /\ Columns(s) <= 2
        /\ s.cls = "FunctionAgg" => s.flavour = "none"}

AllFinite(m) == \A s \in 1..Len(m) : \A i \in 1..Len(m[s]) : IsFinite(m[s][i])

\* Trial constants and totals a model function takes: the constants are
\* positive, the host is present at every observation and the predicted
\* concentrations are finite.
ObjData(f, flavour) ==
    {d \in {<<ps, x>> :
                ps \in {v \in ParamVecs : Len(v) = 2 /\ RLt(Zero, v[1]) /\ RLt(Zero, v[2])},
                x \in Datasets(f)} :
        /\ \A i \in 1..NObs : d[2][1][i] # Zero
        /\ InDomain(f, d[1], d[2], flavour)
        /\ AllFinite(call_f(f, d[1], d[2], flavour).fit)}

ObjDataOf ==
    [k \in {<<s.f, s.flavour>> : s \in ObjSelves} |-> ObjData(k[1], k[2])]

\* One dependent variable, observed NObs times.
YData == {<<row>> : row \in [1..NObs -> {Zero, One}]}

FitCoeffs(self) ==
    {NoArg} \cup {Arg([s \in 1..Columns(self) |-> <<v>>]) : v \in {R(-1), R(1)}}

ObjIdle == [called |-> FALSE, self |-> None, params |-> <<>>, xdata |-> <<>>,
            ydata |-> <<>>, scalar |-> FALSE, ydata_init |-> NoArg,
            fit_coeffs |-> NoArg, fit_coeffs_after |-> NoArg,
            out |-> [kind |-> "none"]]

ObjCall(s, d, y, sc, yi, fc) ==
    [called |-> FALSE, self |-> s, params |-> d[1], xdata |-> d[2], ydata |-> y,
     scalar |-> sc, ydata_init |-> yi, fit_coeffs |-> fc, fit_coeffs_after |-> fc,
     out |-> [kind |-> "none"]]

Call_BindingMixin_objective ==
    /\ ~obj.called /\ obj.self.cls = "FunctionBinding"
    /\ obj' = [obj EXCEPT
                 !.called = TRUE,
                 !.out = BindingMixin_objective(obj.self, obj.params, obj.xdata,
                             obj.ydata, obj.scalar, obj.ydata_init, obj.fit_coeffs),
                 !.fit_coeffs_after = Binding_fit_coeffs_after(obj.self, obj.fit_coeffs)]
    /\ UNCHANGED <<hlp, ctor, mdl, fit_vars>>

Call_AggMixin_objective ==
    /\ ~obj.called /\ obj.self.cls = "FunctionAgg"
    /\ obj' = [obj EXCEPT
                 !.called = TRUE,
                 !.out = AggMixin_objective(obj.self, obj.params, obj.xdata,
                             obj.ydata, obj.scalar, obj.ydata_init, obj.fit_coeffs)]
    /\ UNCHANGED <<hlp, ctor, mdl, fit_vars>>

-----------------------------------------------------------------------------
(* Calls of format_coeffs of the binding strategy *)

FmtSelves ==
    {construct(k, n, fl).instance :
        k \in {"nmr1to1", "uv1to1", "nmr1to2", "uv1to2", "nmr2to1", "uv2to1"},
        n \in BOOLEAN, fl \in Flavours}

\* Raw coefficients for one dependent variable: one to three rows.
FmtCoeffs ==
    UNION {[1..k -> {<<R(-1)>>, <<R(1)>>}] : k \in 1..3}

\* Without normalisation the additive flavours read a second raw row.
FmtReadable(self, coeffs) ==
    (~self.normalise /\ self.flavour \in {"add", "stat"}) => Len(coeffs) >= 2

FmtCall(s, c, yi, h0) ==
    [called |-> FALSE, self |-> s, coeffs |-> c, ydata_init |-> yi, h0_init |-> h0,
     out |-> [status |-> "none", none |-> FALSE, value |-> <<>>]]

Call_format_coeffs ==
    /\ ~obj.called
    /\ obj' = [obj EXCEPT
                 !.called = TRUE,
                 !.out = BindingMixin_format_coeffs(obj.self, obj.coeffs,
                                                    obj.ydata_init, obj.h0_init)]
    /\ UNCHANGED <<hlp, ctor, mdl, fit_vars>>

-----------------------------------------------------------------------------
(* Calls of the fit driver.  One Fitter object; run_scipy is called on it    *)
(* up to MaxRuns times and statistics, from outside a run, up to             *)
(* MaxStatCalls times.  run_scipy advances a stage at a time; run.stages is  *)
(* the history of the stages the current (or last) call has completed.       *)

MaxRuns == 2
MaxStatCalls == 1

ParamNames == {"IC50", "hillslope", "logIC50"}

\* The names of a guess of k parameters.
GuessNames(k) ==
    IF k = 1 THEN {"IC50"} ELSE IF k = 2 THEN {"hillslope", "logIC50"} ELSE ParamNames

\* Initial guesses: one to three names in every insertion order, the j-th
\* inserted with the guess j.
ParamsInit ==
    {[j \in DOMAIN ns |-> <<ns[j], R(j)>>] :
        ns \in {t \in UNION {{u : u \in [1..k -> GuessNames(k)]} : k \in 1..3} :
                   \A a, b \in DOMAIN t : a # b => t[a] # t[b]}}

FitFunctions ==
    {construct(k, TRUE, "none").instance : k \in {"inhibitor", "nmr1to2", "uvcoek"}}

\* A row of ones and the inhibitor levels 1, 2, 2, ..
InhibitorX ==
    << [i \in 1..NObs |-> One], [i \in 1..NObs |-> IF i = 1 THEN R(1) ELSE R(2)] >>

FitX(function) ==
    IF function.cls = "FunctionInhibitorResponse" THEN {InhibitorX}
    ELSE {d[2] : d \in ObjDataOf[<<function.f, function.flavour>>]}

\* One dependent variable: a flat and a rising response.
FitY == { <<[i \in 1..NObs |-> R(50)]>>, <<[i \in 1..NObs |-> R(40 + 10 * i)]>> }

\* For the inhibitor response also a dataset of three dependent variables,
\* which leaves more than one degree of freedom.
FitYOf(function) ==
    IF function.cls = "FunctionInhibitorResponse"
    THEN FitY \cup { << [i \in 1..NObs |-> R(50)],
                        [i \in 1..NObs |-> R(40 + 10 * i)],
                        [i \in 1..NObs |-> R(60 - 10 * i)] >> }
    ELSE FitY

\* The optimizer is not modelled: minimize returns one of these vectors, on
\* which the objective is computed exactly.
InhibitorOptima == { <<R(1), R(1)>>, <<R(-1), R(2)>> }

Optima(function, xdata) ==
    IF function.cls = "FunctionInhibitorResponse" THEN InhibitorOptima
    ELSE {d[1] : d \in {e \in ObjDataOf[<<function.f, function.flavour>>] :
                            e[2] = xdata}}

\* result.x has the length of the start vector.
OfLength(v, P) == [i \in 1..P |-> IF i <= Len(v) THEN v[i] ELSE One]

\* The objective raises IndexError inside minimize when the start vector is
\* shorter than the constants the model reads.
minimize_raises(function, P) ==
    IF function.cls = "FunctionInhibitorResponse" THEN P < 2
    ELSE ~ArityOK(function.f, [i \in 1..P |-> One], function.flavour)

\* time.clock() read twice: toc - tic
Elapsed == {R(1), R(2)}

\* success is result.success of the minimizer in the runs of a behaviour: the
\* tolerance 1e-18 is as a rule not reached within the iteration budget.
EnvOf(has_clock) == [has_clock |-> has_clock, precision |-> 8, success |-> FALSE]

Frame0 ==
    [pc |-> "idle", n |-> 0, outcome |-> "none", stages |-> <<>>, guesses |-> 0,
     params_init |-> <<>>, p |-> <<>>, y |-> <<>>, elapsed |-> Zero,
     result_x |-> <<>>, fit_norm |-> <<>>, residuals |-> <<>>, coeffs |-> <<>>,
     molefrac |-> <<>>, ci |-> <<>>, success |-> FALSE]

\* The frame is gone when the call ends; what is kept is the history.
Unwound(frame, outcome) ==
    [Frame0 EXCEPT !.n = frame.n, !.outcome = outcome, !.stages = frame.stages,
                   !.guesses = frame.guesses]

\* calls is the record of the calls of statistics in a behaviour that keeps one
Stat0 ==
    [n |-> 0, status |-> "none", ci |-> <<>>, evals |-> <<>>, diffs |-> <<>>,
     calls |-> <<>>]
Hist0 == [stored |-> 0, assigned |-> 0, returned |-> 0]

FitIdle ==
    /\ hlp = HlpIdle
    /\ env = EnvOf(TRUE)
    /\ fitter = Fitter_init(<<>>, <<>>, None, TRUE)
    /\ run = [Frame0 EXCEPT !.n = MaxRuns]
    /\ stat = [Stat0 EXCEPT !.n = MaxStatCalls]
    /\ hist = Hist0

\* run_scipy up to y = self._preprocess(self.ydata)
run_scipy_preprocess ==
    /\ run.pc = "idle" /\ run.n < MaxRuns
    /\ \E d \in ParamsInit :
          run' = [Frame0 EXCEPT !.pc = "preprocessed",
                                !.n = run.n + 1,
                                !.outcome = "running",
                                !.stages = <<"preprocess">>,
                                !.guesses = Len(d),
                                !.params_init = d,
                                !.p = initial_vector(d),
                                !.y = Fitter_preprocess(fitter, fitter.ydata)]
    /\ UNCHANGED <<hlp, ctor, mdl, obj, env, fitter, stat, hist>>

\* tic = time.clock(); result = minimize(..); toc = time.clock()
run_scipy_minimize ==
    /\ run.pc = "preprocessed"
    /\ IF ~env.has_clock
       THEN run' = Unwound(run, "AttributeError")
       ELSE IF minimize_raises(fitter.function, Len(run.p))
       THEN run' = Unwound(run, "IndexError")
       ELSE \E v \in Optima(fitter.function, fitter.xdata), e \in Elapsed :
               run' = [run EXCEPT !.pc = "optimized",
                                  !.stages = Append(@, "minimize"),
                                  !.result_x = OfLength(v, Len(run.p)),
                                  !.success = env.success,
                                  !.elapsed = e]
    /\ UNCHANGED <<hlp, ctor, mdl, obj, env, fitter, stat, hist>>

\* run_scipy, the objective's result at result.x unpacked into four
run_scipy_unpack(ret) ==
    IF unpack4(ret) # "ok" THEN Unwound(run, unpack4(ret))
    ELSE [run EXCEPT !.pc = "evaluated",
                     !.stages = Append(@, "evaluate"),
                     !.fit_norm = ret.fit,
                     !.residuals = ret.residuals,
                     !.coeffs = ret.coeffs,
                     !.molefrac = ret.molefrac]

\* fit_norm, residuals, coeffs, molefrac = self.function.objective(result.x, ..)
run_scipy_evaluate ==
    /\ run.pc = "optimized"
    /\ run' = run_scipy_unpack(objective(fitter.function, run.result_x, fitter.xdata,
                                         run.y, default_scalar(fitter.function)))
    /\ UNCHANGED <<hlp, ctor, mdl, obj, env, fitter, stat, hist>>

\* self.time = .. to self.molefrac = ..
run_scipy_stored ==
    /\ run.pc = "evaluated"
    /\ fitter' = run_scipy_store(fitter, run.elapsed, run.result_x, run.fit_norm,
                                 run.residuals, run.coeffs, run.molefrac)
    /\ run' = [run EXCEPT !.pc = "fitted", !.stages = Append(@, "store")]
    /\ hist' = [hist EXCEPT !.stored = run.n]
    /\ UNCHANGED <<hlp, ctor, mdl, obj, env, stat>>

\* The interpreter after a call of statistics.
env_after(st) == IF st.printoptions THEN [env EXCEPT !.precision = 15] ELSE env

\* run_scipy after ci = self.statistics()
run_scipy_ci(st) ==
    IF st.status # "ok" THEN Unwound(run, st.status)
    ELSE [run EXCEPT !.pc = "statistics-computed",
                     !.stages = Append(@, "statistics"),
                     !.ci = st.ci]

\* ci = self.statistics()
run_scipy_statistics ==
    /\ run.pc = "fitted"
    /\ run' = run_scipy_ci(statistics(fitter))
    /\ env' = env_after(statistics(fitter))
    /\ fitter' = statistics_self(fitter)
    /\ UNCHANGED <<hlp, ctor, mdl, obj, stat, hist>>

\* self.params = { name: .. }
run_scipy_assign ==
    /\ run.pc = "statistics-computed"
    /\ fitter' = [fitter EXCEPT
                    !.params = Val(params_dict(run.params_init, run.result_x, run.ci))]
    /\ run' = [run EXCEPT !.pc = "assigned", !.stages = Append(@, "assign")]
    /\ hist' = [hist EXCEPT !.assigned = run.n]
    /\ UNCHANGED <<hlp, ctor, mdl, obj, env, stat>>

\* run_scipy returns
run_scipy_return ==
    /\ run.pc = "assigned"
    /\ run' = Unwound(run, "returned")
    /\ hist' = [hist EXCEPT !.returned = @ + 1]
    /\ UNCHANGED <<hlp, ctor, mdl, obj, env, fitter, stat>>

\* statistics(), called between two runs; calls is the record kept of the
\* calls so far
statistics_called(calls) ==
    /\ run.pc = "idle"
    /\ stat' = [n |-> stat.n + 1, status |-> statistics(fitter).status,
                ci |-> statistics(fitter).ci,
                evals |-> statistics_evals(fitter),
                diffs |-> statistics_diffs(fitter),
                calls |-> calls]
    /\ env' = env_after(statistics(fitter))
    /\ fitter' = statistics_self(fitter)
    /\ UNCHANGED <<hlp, ctor, mdl, obj, run, hist>>

\* statistics(), called by the user of the Fitter
Call_statistics ==
    /\ stat.n < MaxStatCalls
    /\ statistics_called(<<>>)

\* statistics(), called by the user of the Fitter once more than
\* Call_statistics allows, each call recorded with the Fitter it found, the
\* number of runs made before it and what it returned
Call_statistics_again ==
    /\ stat.n < MaxStatCalls + 1
    /\ statistics_called(Append(stat.calls,
                                [self |-> fitter, after |-> run.n,
                                 status |-> statistics(fitter).status,
                                 ci |-> statistics(fitter).ci]))

-----------------------------------------------------------------------------
(* Specifications *)

InitConstruct == ctor \in CtorCalls /\ mdl = MdlIdle /\ obj = ObjIdle /\ FitIdle
NextConstruct == Construct
SpecConstruct == InitConstruct /\ [][NextConstruct]_vars

InitModels ==
    /\ \E m \in CubicModels, ps \in ParamVecs, fl \in Flavours :
         \E x \in Datasets(m) :
            /\ InDomain(m, ps, x, fl)
            /\ mdl = MdlCall(m, ps, fl, x)
    /\ ctor = CtorIdle
    /\ obj = ObjIdle
    /\ FitIdle
NextModels ==
    \/ Call_uv_1to2
    \/ Call_nmr_1to2
    \/ Call_uv_2to1
    \/ Call_nmr_2to1
    \/ Call_uv_coek
    \/ Call_nmr_coek
SpecModels == InitModels /\ [][NextModels]_vars

InitOneToOne ==
    /\ \E m \in OneToOneModels, ps \in ParamVecs :
         \E x \in Datasets(m) :
            /\ InDomain_1to1(ps, x)
            /\ mdl = MdlCall(m, ps, "none", x)
    /\ ctor = CtorIdle
    /\ obj = ObjIdle
    /\ FitIdle
NextOneToOne ==
    \/ Call_nmr_1to1
    \/ Call_uv_1to1
SpecOneToOne == InitOneToOne /\ [][NextOneToOne]_vars

\* The 1:1 models on totals in halves of a unit, below and above one.
ScaledConc == {RNorm(c, 2) : c \in 0..(2 * ConcMax)}

ScaledData ==
    {<< [i \in 1..NObs |-> h], g >> : h \in ScaledConc, g \in [1..NObs -> ScaledConc]}

InitOneToOneScaled ==
    /\ \E m \in OneToOneModels, k \in KVals, x \in ScaledData :
            /\ InDomain_1to1(<<k>>, x)
            /\ mdl = MdlCall(m, <<k>>, "none", x)
    /\ ctor = CtorIdle
    /\ obj = ObjIdle
    /\ FitIdle
SpecOneToOneScaled == InitOneToOneScaled /\ [][NextOneToOne]_vars

\* The six binding models together.
InitBinding ==
    /\ \/ \E m \in {"uv_1to2", "nmr_1to2", "uv_2to1", "nmr_2to1"}, ps \in ParamVecs,
             fl \in Flavours :
            \E x \in Datasets(m) :
                /\ InDomain(m, ps, x, fl)
                /\ mdl = MdlCall(m, ps, fl, x)
       \/ \E m \in OneToOneModels, ps \in ParamVecs, fl \in Flavours :
            \E x \in Datasets(m) :
                /\ InDomain_1to1(ps, x)
                /\ mdl = MdlCall(m, ps, fl, x)
    /\ ctor = CtorIdle
    /\ obj = ObjIdle
    /\ FitIdle
NextBinding ==
    \/ Call_uv_1to2
    \/ Call_nmr_1to2
    \/ Call_uv_2to1
    \/ Call_nmr_2to1
    \/ Call_nmr_1to1
    \/ Call_uv_1to1
SpecBinding == InitBinding /\ [][NextBinding]_vars

InitDimer ==
    /\ \E m \in DimerModels, ps \in DimerParams, x \in DimerData :
            /\ InDomain_dimer(ps, x)
            /\ mdl = MdlCall(m, ps, "none", x)
    /\ ctor = CtorIdle
    /\ obj = ObjIdle
    /\ FitIdle
NextDimer ==
    \/ Call_nmr_dimer
    \/ Call_uv_dimer
SpecDimer == InitDimer /\ [][NextDimer]_vars

InitHelpers ==
    /\ \E data \in HelperData : hlp = [HlpIdle EXCEPT !.pc = "start", !.data = data]
    /\ ctor = CtorIdle
    /\ mdl = MdlIdle
    /\ obj = ObjIdle
    /\ env = EnvOf(TRUE)
    /\ fitter = Fitter_init(<<>>, <<>>, None, TRUE)
    /\ run = [Frame0 EXCEPT !.n = MaxRuns]
    /\ stat = [Stat0 EXCEPT !.n = MaxStatCalls]
    /\ hist = Hist0
NextHelpers ==
    \/ Call_normalise
    \/ Call_denormalise
SpecHelpers == InitHelpers /\ [][NextHelpers]_vars

InitObjective ==
    /\ \E s \in ObjSelves :
         \E d \in ObjDataOf[<<s.f, s.flavour>>], y \in YData, sc \in BOOLEAN,
            yi \in {NoArg, Arg(<<One>>)}, fc \in FitCoeffs(s) :
                obj = ObjCall(s, d, y, sc, yi, fc)
    /\ ctor = CtorIdle
    /\ mdl = MdlIdle
    /\ FitIdle
NextObjective ==
    \/ Call_BindingMixin_objective
    \/ Call_AggMixin_objective
SpecObjective == InitObjective /\ [][NextObjective]_vars

InitFormatCoeffs ==
    /\ \E s \in FmtSelves, c \in FmtCoeffs, yi \in {NoArg, Arg(<<R(1)>>), Arg(<<R(3)>>)},
          h0 \in {NoArg, Arg(R(2))} :
            /\ FmtReadable(s, c)
            /\ obj = FmtCall(s, c, yi, h0)
    /\ ctor = CtorIdle
    /\ mdl = MdlIdle
    /\ FitIdle
NextFormatCoeffs == Call_format_coeffs
SpecFormatCoeffs == InitFormatCoeffs /\ [][NextFormatCoeffs]_vars

Init ==
    /\ \E function \in FitFunctions, normalise_opt \in BOOLEAN, has_clock \in BOOLEAN :
         \E xdata \in FitX(function), ydata \in FitYOf(function) :
            /\ fitter = Fitter_init(xdata, ydata, function, normalise_opt)
            /\ env = EnvOf(has_clock)
    /\ run = Frame0
    /\ stat = Stat0
    /\ hist = Hist0
    /\ ctor = CtorIdle
    /\ hlp = HlpIdle
    /\ mdl = MdlIdle
    /\ obj = ObjIdle
Next ==
    \/ run_scipy_preprocess
    \/ run_scipy_minimize
    \/ run_scipy_evaluate
    \/ run_scipy_stored
    \/ run_scipy_statistics
    \/ run_scipy_assign
    \/ run_scipy_return
    \/ Call_statistics
Spec == Init /\ [][Next]_vars

\* The fit driver on the inhibitor response, with a minimizer that confirms
\* convergence and with one that does not.
InitConvergence ==
    /\ \E normalise_opt \in BOOLEAN, success \in BOOLEAN :
         \E xdata \in FitX(construct("inhibitor", TRUE, "none").instance), ydata \in FitY :
            /\ fitter = Fitter_init(xdata, ydata, construct("inhibitor", TRUE, "none").instance,
                                    normalise_opt)
            /\ env = [EnvOf(TRUE) EXCEPT !.success = success]
    /\ run = Frame0
    /\ stat = Stat0
    /\ hist = Hist0
    /\ ctor = CtorIdle
    /\ hlp = HlpIdle
    /\ mdl = MdlIdle
    /\ obj = ObjIdle
SpecConvergence == InitConvergence /\ [][Next]_vars

\* The fit driver on the inhibitor response, the Fitter built with the default
\* normalise=True, with the calls of statistics from outside recorded.
InitStatistics ==
    /\ \E has_clock \in BOOLEAN :
         \E xdata \in FitX(construct("inhibitor", TRUE, "none").instance), ydata \in FitY :
            /\ fitter = Fitter_init(xdata, ydata, construct("inhibitor", TRUE, "none").instance,
                                    TRUE)
            /\ env = EnvOf(has_clock)
    /\ run = Frame0
    /\ stat = Stat0
    /\ hist = Hist0
    /\ ctor = CtorIdle
    /\ hlp = HlpIdle
    /\ mdl = MdlIdle
    /\ obj = ObjIdle
NextStatistics ==
    \/ run_scipy_preprocess
    \/ run_scipy_minimize
    \/ run_scipy_evaluate
    \/ run_scipy_stored
    \/ run_scipy_statistics
    \/ run_scipy_assign
    \/ run_scipy_return
    \/ Call_statistics_again
SpecStatistics == InitStatistics /\ [][NextStatistics]_vars


-----------------------------------------------------------------------------
(* The objective layer: claim C5, under SpecObjective *)

Cells(m) == {<<j, i>> : j \in 1..Len(m), i \in 1..Len(m[1])}

RECURSIVE SumOfSquares(_, _)
SumOfSquares(m, cells) ==
    IF cells = {} THEN Zero
    ELSE LET c == CHOOSE c \in cells : TRUE
         IN  RAdd(RMul(m[c[1]][c[2]], m[c[1]][c[2]]), SumOfSquares(m, cells \ {c}))

\* The instance needs ydata_init to format its coefficients.
NeedsInit(self) == self.cls = "FunctionBinding" /\ self.normalise

\* The detailed result for the inputs of the recorded call, with ydata_init
\* supplied.
DetailedTwin ==
    IF obj.self.cls = "FunctionBinding"
    THEN BindingMixin_objective(obj.self, obj.params, obj.xdata, obj.ydata, FALSE,
                                Arg(<<One>>), obj.fit_coeffs)
    ELSE AggMixin_objective(obj.self, obj.params, obj.xdata, obj.ydata, FALSE,
                            Arg(<<One>>), obj.fit_coeffs)

\* out is a 6-tuple whose residuals are fit - ydata.
IsDetailed(out) ==
    /\ out.kind = "tuple"
    /\ out.len = 6
    /\ \A c \in Cells(obj.ydata) :
          out.residuals[c[1]][c[2]] = RSub(out.fit[c[1]][c[2]], obj.ydata[c[1]][c[2]])

\* out is what the recorded call returned, twin the detailed result.
ScalarOrDetailed(out, twin) ==
    /\ obj.scalar =>
          /\ out.kind = "scalar"
          /\ IsDetailed(twin)
          /\ out.value = SumOfSquares(twin.residuals, Cells(obj.ydata))
    /\ (~obj.scalar /\ (NeedsInit(obj.self) => obj.ydata_init.given)) =>
          IsDetailed(out)

\* C5 (as amended): for both the binding and the aggregation objective,
\* called with scalar=True the result is the single number sum(residuals^2);
\* called with scalar=False, and with ydata_init supplied when the instance is
\* a normalised binding one, the result is the detailed 6-tuple whose
\* residuals are fit - ydata; and the scalar result equals the sum of squares
\* of the residuals of the detailed result for the same inputs.
C5_ScalarAndDetailed ==
    obj.called => ScalarOrDetailed(obj.out, DetailedTwin)

\* A detailed call of a normalised binding objective with ydata_init, the fit
\* off the data somewhere.
C5_Witness ==
    /\ obj.called /\ ~obj.scalar
    /\ NeedsInit(obj.self) /\ obj.ydata_init.given
    /\ obj.out.kind = "tuple"
    /\ \E c \in Cells(obj.ydata) : obj.out.residuals[c[1]][c[2]] # Zero

\* C5 as stated: scalar=True gives the number, scalar=False the detailed
\* 6-tuple, whatever else is passed.
C5_AsStated ==
    obj.called =>
        IF obj.scalar THEN obj.out.kind = "scalar"
        ELSE obj.out.kind = "tuple" /\ obj.out.len = 6

-----------------------------------------------------------------------------
(* The fit driver: claims C1, C2, C3, C4 and C6, under Spec *)

\* The number of constants the instance's model reads.
NConstants(function) ==
    IF function.cls = "FunctionBinding" /\ function.flavour \in {"noncoop", "stat"}
    THEN 1 ELSE 2

\* A call of run_scipy has ended, made with as many guesses as the model has
\* constants, on an interpreter that has time.clock.
RunEnded ==
    /\ env.has_clock
    /\ run.pc = "idle" /\ run.n >= 1
    /\ run.guesses = NConstants(fitter.function)

AllStages == <<"preprocess", "minimize", "evaluate", "store", "statistics", "assign">>

\* C1: for an instance of any strategy of the catalog, a valid dataset and a
\* valid initial guess, run_scipy obtains fit, residuals, coefficients and
\* molefractions from the detailed objective at the optimum and reaches the
\* fitted state; it does not end in an error.
C1_RunReachesFitted ==
    RunEnded =>
        /\ run.outcome = "returned"
        /\ \E k \in 1..Len(run.stages) : run.stages[k] = "store"

\* C2: in every execution of run_scipy the stages are passed in the order
\* preprocess, minimize, evaluate, store, statistics (once), assign, and none
\* is skipped.
C2_StagesInOrder ==
    /\ \A k \in 1..Len(run.stages) : k <= Len(AllStages) /\ run.stages[k] = AllStages[k]
    /\ RunEnded => run.stages = AllStages

ResultFields == {"params", "time", "fit", "residuals", "coeffs", "molefrac"}

\* C3: statistics() called on a Fitter on which no run has reached the fitted
\* state ends in an error, returns no confidence intervals and leaves every
\* result field empty.
C3_StatisticsBeforeFit ==
    (stat.n >= 1 /\ hist.stored = 0) =>
        /\ stat.status = "AttributeError"
        /\ stat.ci = <<>>
        /\ \A f \in ResultFields : fitter[f].is = "None"

\* statistics() was called and a run has failed, none having reached the
\* fitted state.
C3_Witness ==
    /\ stat.n >= 1 /\ hist.stored = 0
    /\ run.n >= 1 /\ run.pc = "idle" /\ run.outcome = "TypeError"

\* C4: the six result fields are None from construction until a run stores
\* its results; after a run that returns normally all six hold values, the
\* ones that run computed, whether or not an earlier run had populated them.
C4_ResultFields ==
    /\ hist.stored = 0 => \A f \in ResultFields : fitter[f].is = "None"
    /\ run.pc = "assigned" =>
          /\ fitter.time = Val(run.elapsed)
          /\ fitter.fit = Val(IF fitter.normalise
                              THEN [j \in 1..Len(fitter.ydata) |->
                                      [i \in 1..Len(fitter.ydata[j]) |->
                                          RAdd(run.fit_norm[1][i], fitter.ydata[j][1])]]
                              ELSE run.fit_norm)
          /\ fitter.residuals = Val(run.residuals)
          /\ fitter.coeffs = Val(run.coeffs)
          /\ fitter.molefrac.is = "value"
          /\ Tail(fitter.molefrac.value) = run.molefrac
          /\ fitter.params.is = "value"
          /\ \A name \in DOMAIN fitter.params.value :
                \E i \in 1..Len(run.result_x) :
                    fitter.params.value[name].value = run.result_x[i]
    /\ run.outcome = "returned" =>
          /\ \A f \in ResultFields : fitter[f].is = "value"
          /\ hist.stored = run.n
          /\ hist.assigned = run.n

\* The second run on the Fitter has returned normally, after a first that did.
C4_Witness ==
    /\ run.n = 2 /\ run.outcome = "returned"
    /\ hist.returned = 2

\* Python's order of the names.
NameOrder == <<"IC50", "hillslope", "logIC50">>
Before(a, b) ==
    \E i, j \in 1..Len(NameOrder) : i < j /\ NameOrder[i] = a /\ NameOrder[j] = b

\* The position of a name among the sorted names of the dict d.
Rank(d, name) == 1 + Cardinality({j \in 1..Len(d) : Before(d[j][1], name)})

\* C6: with the names of the initial guess sorted n_0 < ... < n_(P-1), the
\* start vector holds params_init[n_i] at position i, the confidence interval
\* at position i comes from perturbing position i of the optimized vector, and
\* params[n_i] is value = optimized vector[i], stderr = confidence interval[i],
\* init = params_init[n_i].
C6_CanonicalOrder ==
    /\ run.pc # "idle" =>
          \A j \in 1..Len(run.params_init) :
              run.p[Rank(run.params_init, run.params_init[j][1])] = run.params_init[j][2]
    /\ run.pc \in {"statistics-computed", "assigned"} =>
          \A i \in 1..Len(run.params_init) :
              run.ci[i].index = i /\ run.ci[i].param = run.result_x[i]
    /\ run.pc = "assigned" =>
          /\ DOMAIN fitter.params.value = {run.params_init[j][1] : j \in 1..Len(run.params_init)}
          /\ \A j \in 1..Len(run.params_init) :
                fitter.params.value[run.params_init[j][1]] =
                    [value  |-> run.result_x[Rank(run.params_init, run.params_init[j][1])],
                     stderr |-> run.ci[Rank(run.params_init, run.params_init[j][1])],
                     init   |-> run.params_init[j][2]]

\* params has been assigned from a guess whose names were inserted out of
\* order, and the optimized vector has two different elements.
C6_Witness ==
    /\ run.pc = "assigned"
    /\ Len(run.params_init) = 2
    /\ Before(run.params_init[2][1], run.params_init[1][1])
    /\ run.result_x[1] # run.result_x[2]

-----------------------------------------------------------------------------
(* The factory: claims C7 and C8, under SpecConstruct *)

\* The strategy the catalog table names for a key.
StrategyOf(key) ==
    IF key \in {"nmrdimer", "uvdimer", "nmrcoek", "uvcoek"} THEN "FunctionAgg"
    ELSE IF key = "inhibitor" THEN "FunctionInhibitorResponse"
    ELSE "FunctionBinding"

\* C7: for every catalog key and every normalise/flavour argument, construct
\* returns an instance of the strategy the table names for the key, carrying
\* the key's model function and the given normalise and flavour, and never
\* ends in an error.
C7_CatalogKeyConstructs ==
    (ctor.called /\ ctor.key \in CatalogKeys) =>
        /\ ctor.res.status = "ok"
        /\ ctor.res.instance.cls = StrategyOf(ctor.key)
        /\ ctor.res.instance.f = ModelOf(ctor.key)
        /\ ctor.res.instance.normalise = ctor.normalise
        /\ ctor.res.instance.flavour = ctor.flavour

\* C8: construct called with a key outside the catalog ends in an error (the
\* KeyError of the table lookup): there is no instance, and no model function
\* has been evaluated.
C8_UnknownKeyFails ==
    (ctor.called /\ ctor.key \notin CatalogKeys) =>
        /\ ctor.res.status = "KeyError"
        /\ ctor.res.instance = None
        /\ ~mdl.called

C8_Witness ==
    /\ ctor.called
    /\ ctor.key = "nmr1to3"
    /\ ctor.res.status = "KeyError"

-----------------------------------------------------------------------------
(* The cubic models: claims C9 and C10, under SpecModels *)

\* The same, with the two constants of a 1:2 or 2:1 model given.
ModelWithConstants(name, k11, k12, xdata, flavour) ==
    CASE name = "uv_1to2"  -> uv_1to2_k(k11, k12, xdata[1], xdata[2], flavour)
      [] name = "nmr_1to2" -> nmr_1to2_k(k11, k12, xdata[1], xdata[2], flavour)
      [] name = "uv_2to1"  -> uv_2to1_k(k11, k12, xdata[1], xdata[2], flavour)
      [] name = "nmr_2to1" -> nmr_2to1_k(k11, k12, xdata[1], xdata[2], flavour)

\* The cubic of one observation with totals h0 and g0, as the model builds it.
CubicOf(name, params, flavour, h0, g0) ==
    CASE name \in {"uv_1to2", "nmr_1to2"} ->
            poly_1to2(params[1], secondary_constant(params, flavour), <<h0>>, <<g0>>)[1]
      [] name \in {"uv_2to1", "nmr_2to1"} ->
            poly_2to1(params[1], secondary_constant(params, flavour), <<h0>>, <<g0>>)[1]
      [] OTHER ->
            poly_coek(params[1], params[2], <<h0>>)[1]

\* The real parts of the roots with imaginary part == 0 and real part >= 0.
Qualifying(roots) == {z.re : z \in {w \in roots : w.im_sign = 0 /\ ~RLt(w.re, Zero)}}

\* x is the minimum of the qualifying values q, or 0 when there is none.
IsSelection(x, q) ==
    IF q = {} THEN x = Zero ELSE x \in q /\ \A y \in q : ~RLt(y, x)

\* Observation i alone, as a dataset of one observation.
Single(xdata, i) == <<<<xdata[1][i]>>, <<xdata[2][i]>>>>

\* C9: in every cubic model and for each observation i, the free-species
\* concentration is the minimum real part among the roots, of the cubic built
\* from observation i's own totals, with imaginary part == 0 and real part
\* >= 0, and 0 when no root qualifies; it is what the model gives for
\* observation i alone.
C9_RootSelection ==
    (mdl.called /\ mdl.out.status = "ok") =>
        \A i \in 1..Len(mdl.xdata[1]) :
            /\ IsSelection(mdl.out.free[i],
                   Qualifying(np_roots(CubicOf(mdl.model, mdl.params, mdl.flavour,
                                               mdl.xdata[1][i], mdl.xdata[2][i])).roots))
            /\ mdl.out.free[i] =
                   call_f(mdl.model, mdl.params, Single(mdl.xdata, i), mdl.flavour).free[1]

\* The number of qualifying roots of observation i of the call.
NQualifying(i) ==
    Cardinality(Qualifying(np_roots(CubicOf(mdl.model, mdl.params, mdl.flavour,
                                            mdl.xdata[1][i], mdl.xdata[2][i])).roots))

\* A call whose first observation has several qualifying roots and whose
\* second has none.
C9_Witness ==
    /\ mdl.called
    /\ mdl.out.status = "ok"
    /\ NQualifying(1) >= 2
    /\ NQualifying(2) = 0
    /\ mdl.out.free[1] # mdl.out.free[2]

BindingModels == {"uv_1to2", "nmr_1to2", "uv_2to1", "nmr_2to1"}

\* C10: in the 1:2 and 2:1 models with flavour "noncoop" or "stat" the
\* secondary constant is k11/4 and the output is the same for every value, or
\* the absence, of a second parameter; with any other flavour the secondary
\* constant is params[1].
C10_SecondaryConstant ==
    (mdl.called /\ mdl.model \in BindingModels /\ mdl.out.status = "ok") =>
        IF mdl.flavour \in {"noncoop", "stat"}
        THEN /\ mdl.out.k12 = RDiv(mdl.params[1], R(4))
             /\ mdl.out = ModelWithConstants(mdl.model, mdl.params[1],
                              RDiv(mdl.params[1], R(4)), mdl.xdata, mdl.flavour)
             /\ \A ps \in {<<mdl.params[1]>>} \cup {<<mdl.params[1], b>> : b \in KVals} :
                    call_f(mdl.model, ps, mdl.xdata, mdl.flavour) = mdl.out
        ELSE /\ mdl.out.k12 = mdl.params[2]
             /\ mdl.out = ModelWithConstants(mdl.model, mdl.params[1],
                              mdl.params[2], mdl.xdata, mdl.flavour)

\* A non-cooperative call given a second parameter that is not k11/4, with a
\* guest (or host) left free.
C10_Witness ==
    /\ mdl.called
    /\ mdl.model \in BindingModels
    /\ mdl.flavour = "noncoop"
    /\ Len(mdl.params) = 2
    /\ mdl.params[2] # RDiv(mdl.params[1], R(4))
    /\ mdl.out.status = "ok"
    /\ mdl.out.k12 = RDiv(mdl.params[1], R(4))
    /\ \E i \in 1..Len(mdl.out.free) : mdl.out.free[i] # Zero

-----------------------------------------------------------------------------
(* The cubic models: claim C11, under SpecModels *)

\* out is what the recorded call returned, plain what the model returns for
\* the same constants and totals with no flavour.
FoldedRows(out, plain) ==
    /\ Len(out.molefrac) = 3
    /\ out.molefrac = plain.molefrac
    /\ IF mdl.flavour \in {"add", "stat"}
       THEN /\ Len(out.fit) = 2
            /\ Len(Tail(out.fit)) = 1
            /\ out.fit[1] = plain.fit[1]
            /\ \A i \in 1..Len(mdl.xdata[1]) :
                  out.fit[2][i] = RAdd(plain.fit[2][i], RMul(R(2), plain.fit[3][i]))
       ELSE /\ Len(out.fit) = 3
            /\ Len(Tail(out.fit)) = 2
            /\ out.fit = plain.fit

\* C11: in the 1:2 and 2:1 models, for flavour "add" or "stat" the array
\* returned for regression has the two rows (free host, singly-bound + 2 x
\* doubly-bound), one row after the normalisation row drop; for every other
\* flavour it has the three rows (free host, singly-bound, doubly-bound); the
\* display molefraction array has three rows for every flavour.
C11_AdditiveFold ==
    (mdl.called /\ mdl.model \in BindingModels /\ mdl.out.status = "ok") =>
        FoldedRows(mdl.out, ModelWithConstants(mdl.model, mdl.params[1], mdl.out.k12,
                                               mdl.xdata, "none"))

\* An additive call in which some doubly-bound complex is present.
C11_Witness ==
    /\ mdl.called /\ mdl.model \in BindingModels /\ mdl.out.status = "ok"
    /\ mdl.flavour \in {"add", "stat"}
    /\ Len(mdl.out.fit) = 2
    /\ \E i \in 1..Len(mdl.xdata[1]) :
          IsFinite(mdl.out.molefrac[3][i]) /\ mdl.out.molefrac[3][i] # Zero

-----------------------------------------------------------------------------
(* The 1:1 models *)

\* Observation i of the call has a root with non-zero imaginary part.
ComplexRoot(i) ==
    hg_1to1(mdl.params[1], mdl.xdata[1], mdl.xdata[2])[i].im # Zero

\* The bound-complex and the free-host concentration the call returned for
\* observation i (nmr_1to1 returns them divided by the host total).
BoundConc(i) ==
    IF mdl.model = "uv_1to1" THEN mdl.out.fit[2][i]
    ELSE Cx(RMul(mdl.out.fit[2][i].re, mdl.xdata[1][i]),
            RMul(mdl.out.fit[2][i].im, mdl.xdata[1][i]))

FreeConc(i) ==
    IF mdl.model = "uv_1to1" THEN mdl.out.fit[1][i]
    ELSE Cx(RMul(mdl.out.fit[1][i].re, mdl.xdata[1][i]),
            RMul(mdl.out.fit[1][i].im, mdl.xdata[1][i]))

\* b is the real number sqrt(h0*g0) of observation i.
IsGeometricMean(b, i) ==
    /\ b.im = Zero
    /\ ~RLt(b.re, Zero)
    /\ RSq(b.re) = RMul(mdl.xdata[1][i], mdl.xdata[2][i])

\* C12: when a 1:1 model gets a bound-complex root with non-zero imaginary
\* part for an observation, the bound-complex concentration it returns for
\* that observation is sqrt(h0*g0) and the free-host concentration is h0
\* minus that value.
C12_GeometricMeanFallback ==
    (mdl.called /\ mdl.model \in OneToOneModels /\ mdl.out.status = "ok") =>
        \A i \in 1..Len(mdl.xdata[1]) :
            ComplexRoot(i) =>
                /\ IsGeometricMean(BoundConc(i), i)
                /\ FreeConc(i) = Cx(RSub(mdl.xdata[1][i], BoundConc(i).re), Zero)

-----------------------------------------------------------------------------
(* statistics *)

\* C13: every evaluation of the objective that statistics() makes for a
\* perturbed parameter is supplied, as fit_coeffs, the coefficients the
\* Fitter stored at the optimum, so that the regression is not solved again.
C13_CoefficientsHeldFixed ==
    \A i \in 1..Len(stat.evals) :
        /\ stat.evals[i].fit_coeffs.given
        /\ stat.evals[i].fit_coeffs.value = fitter.coeffs.value

\* C14: the sensitivity vector statistics() uses for each parameter i is
\* (the fit this Fitter's objective yields with parameter i multiplied by
\* 1 + 1e-6) minus (this Fitter's stored fit), divided by (perturbed value -
\* original value), and depends on nothing but this Fitter's dataset,
\* function and optimized parameters.
C14_SensitivityOfOwnFit ==
    \A i \in 1..Len(stat.diffs) :
        /\ stat.diffs[i].fit_shift = "objective"
        /\ stat.diffs[i].fit = "self.fit"

\* The last run ended in an error raised by its statistics step.
StatisticsStepFailed ==
    /\ run.pc = "idle"
    /\ run.stages = <<"preprocess", "minimize", "evaluate", "store">>
    /\ run.outcome \notin {"none", "returned"}

\* C15: an error of statistics() inside a run (the error it ends in for a
\* singular M, or any other) aborts only the statistics step: the fit of
\* that run stays available through the result fields, the optimized
\* parameter values of that run included.
C15_StatisticsFailureKeepsFit ==
    StatisticsStepFailed =>
        /\ \A f \in ResultFields : fitter[f].is = "value"
        /\ \A i \in 1..Len(fitter.params_raw.value) :
              \E name \in DOMAIN fitter.params.value :
                  fitter.params.value[name].value = fitter.params_raw.value[i]

\* C16: statistics() returns confidence intervals only when the degrees of
\* freedom (values of the dependent variables - fitted parameters - fitted
\* coefficients) exceed 1; otherwise it ends in a failure and nothing is
\* divided by (degrees of freedom - 1).
C16_DegreesOfFreedomChecked ==
    /\ stat.status = "ok" => \A i \in 1..Len(stat.ci) : stat.ci[i].d_free > 1
    /\ \A i \in 1..Len(run.ci) : run.ci[i].d_free > 1

\* What an element of ci_percent = (t*sigma)/params * 100 is when the
\* degrees of freedom exceed 1: t and m_diag are positive and sigma =
\* sqrt((m_diag*ssr)/(d_free - 1)) has the sign of ssr, so that the element
\* has the sign of ssr * params[i]; it is not finite when params[i] is
\* zero or ssr is not finite.
ci_percent_kind(e) ==
    IF ~IsFinite(e.ssr) \/ ~IsFinite(e.param) \/ e.param = Zero THEN "not finite"
    ELSE IF Sign(e.ssr[1]) * Sign(e.param[1]) < 0 THEN "negative"
    ELSE "non-negative"

\* The confidence intervals that statistics() has returned, to run_scipy or
\* to the caller.
ReturnedIntervals ==
    {run.ci[i] : i \in 1..Len(run.ci)} \cup
    (IF stat.status = "ok" THEN {stat.ci[i] : i \in 1..Len(stat.ci)} ELSE {})

\* C17: with more than one degree of freedom (M is non-singular in every
\* call that returns), every confidence-interval percentage statistics()
\* returns is finite and non-negative, whatever the sign of the parameter.
C17_IntervalsNonNegative ==
    \A e \in ReturnedIntervals :
        e.d_free > 1 => ci_percent_kind(e) = "non-negative"

-----------------------------------------------------------------------------
(* Mole fractions *)

\* What run_scipy stores in self.molefrac for the mole fractions of the
\* call; the objective hands the model's array on as it is.
StoredMolefrac == with_host_row(mdl.out.molefrac)

\* C18: the molefrac a run stores has the free-host mole fraction as its
\* first row, which is per observation 1 minus the sum of the rows of the
\* other species, and after it exactly one row per complex species (a 1:2
\* or 2:1 model has two).
C18_HostRowPrepended ==
    (mdl.called /\ mdl.model \in BindingModels /\ mdl.out.status = "ok") =>
        /\ Len(StoredMolefrac) = 1 + 2
        /\ \A i \in 1..Len(mdl.xdata[1]) :
              StoredMolefrac[1][i] =
                  RSub(One, ColSumTo(Tail(StoredMolefrac), i, 2))

\* The sum over the rows of the returned mole fractions at observation i.
MolefracSum(i) ==
    IF mdl.model \in OneToOneModels
    THEN Cx(RAdd(mdl.out.molefrac[1][i].re, mdl.out.molefrac[2][i].re),
            RAdd(mdl.out.molefrac[1][i].im, mdl.out.molefrac[2][i].im))
    ELSE Cx(ColSumTo(mdl.out.molefrac, i, Len(mdl.out.molefrac)), Zero)

\* Every mole fraction returned for observation i is a finite number.
FiniteAt(i) ==
    \A r \in 1..Len(mdl.out.molefrac) :
        IF mdl.model \in OneToOneModels
        THEN IsFinite(mdl.out.molefrac[r][i].re) /\ IsFinite(mdl.out.molefrac[r][i].im)
        ELSE IsFinite(mdl.out.molefrac[r][i])

\* Observation i has a host total other than zero, and the binding constants
\* of the call are positive.
PositiveInput(i) ==
    /\ mdl.xdata[1][i] # Zero
    /\ RLt(Zero, mdl.params[1])
    /\ mdl.model \in BindingModels => RLt(Zero, mdl.out.k12)

-----------------------------------------------------------------------------
(* The helpers *)

\* C20: denormalise(data, normalise(data)) is data; normalise subtracts from
\* every row its value at the first observation, so that the first column
\* of the result is zero, and denormalise adds the same values back.
C20_RoundTrip ==
    /\ hlp.pc \in {"normalised", "done"} =>
          \A j \in 1..Len(hlp.data) :
              /\ Len(hlp.norm[j]) = Len(hlp.data[j])
              /\ hlp.norm[j][1] = Zero
              /\ \A i \in 1..Len(hlp.data[j]) :
                    hlp.norm[j][i] = RSub(hlp.data[j][i], hlp.data[j][1])
    /\ hlp.pc = "done" =>
          /\ hlp.denorm = hlp.data
          /\ \A j \in 1..Len(hlp.data) : \A i \in 1..Len(hlp.data[j]) :
                hlp.denorm[j][i] = RAdd(hlp.norm[j][i], hlp.data[j][1])

\* A finished round trip of two variables that start at different values,
\* neither of them zero, and change from the first observation on.
C20_Witness ==
    /\ hlp.pc = "done"
    /\ Len(hlp.data) = 2 /\ Len(hlp.data[1]) >= 2
    /\ hlp.data[1][1] # Zero /\ hlp.data[2][1] # Zero
    /\ hlp.data[1][1] # hlp.data[2][1]
    /\ hlp.norm # hlp.data
    /\ hlp.norm[1][2] # Zero /\ hlp.norm[2][2] # Zero

-----------------------------------------------------------------------------
(* Frame conditions of the fit driver *)

\* C21: no step of run_scipy and no call of statistics, ending in an error
\* or not, with normalise on or off, changes xdata or ydata of the Fitter:
\* they hold the values supplied at construction.
C21_DatasetNeverMutated ==
    [][fitter'.xdata = fitter.xdata /\ fitter'.ydata = fitter.ydata]_vars

\* A Fitter with normalise on, on which a run has returned normally, a later
\* run has ended in an error after storing, and statistics() has been called.
C21_Witness ==
    /\ fitter.normalise
    /\ hist.returned >= 1
    /\ StatisticsStepFailed
    /\ stat.n >= 1
    /\ fitter.fit.is = "value" /\ fitter.fit.value # fitter.ydata

\* What the run at the point of its return leaves in the Fitter when the
\* minimizer has confirmed convergence: the store and the assignment of
\* run_scipy on the values of the frame.
ConvergedTwin ==
    [run_scipy_store(fitter, run.elapsed, run.result_x, run.fit_norm, run.residuals,
                     run.coeffs, run.molefrac)
        EXCEPT !.params = Val(params_dict(run.params_init, run.result_x, run.ci))]

\* C22: a run whose minimizer returns without confirming convergence reaches
\* its normal return with the best point found as the optimized parameters,
\* and leaves a Fitter that differs from the one the converged run leaves.
C22_NonConvergenceRecorded ==
    (run.pc = "assigned" /\ ~run.success) =>
        /\ \A name \in DOMAIN fitter.params.value :
              \E i \in 1..Len(run.result_x) :
                  fitter.params.value[name].value = run.result_x[i]
        /\ fitter # ConvergedTwin

\* The number of parameters the model of a fit function reads.
ModelArity(function) ==
    CHOOSE n \in 1..3 :
        /\ ~minimize_raises(function, n)
        /\ \A m \in 1..(n - 1) : minimize_raises(function, m)

\* C23: a run whose number of initial parameters differs from the number the
\* model reads fails before the minimizer is entered, and changes no result
\* field.
C23_ArityMismatchFailsFast ==
    (run.n >= 1 /\ run.guesses # ModelArity(fitter.function)) =>
        /\ \A k \in 1..Len(run.stages) : run.stages[k] # "minimize"
        /\ run.pc \in {"preprocessed", "idle"}
        /\ run.outcome # "returned"
        /\ hist.stored # run.n /\ hist.assigned # run.n

-----------------------------------------------------------------------------
(* The dimer models at ke == 0 *)

DimerAtZero == mdl.called /\ mdl.model \in DimerModels /\ mdl.params[1] = Zero

AllZero3(a) ==
    /\ Len(a) = 3
    /\ \A r \in 1..3 : Len(a[r]) = Len(mdl.xdata[1])
    /\ \A r \in 1..3 : \A i \in 1..Len(a[r]) : a[r][i] = Zero

\* C24: a dimer model called with ke == 0 on a host array of finite entries
\* returns, without raising, two arrays of three rows and one column per
\* observation whose entries are all zero.
C24_DimerZeroAtKeZero ==
    (DimerAtZero /\ \A i \in 1..Len(mdl.xdata[1]) : IsFinite(mdl.xdata[1][i])) =>
        /\ mdl.out.status = "ok"
        /\ AllZero3(mdl.out.fit)
        /\ AllZero3(mdl.out.molefrac)

C24_Witness ==
    /\ DimerAtZero
    /\ \A i \in 1..Len(mdl.xdata[1]) : IsFinite(mdl.xdata[1][i])
    /\ \E i \in 1..Len(mdl.xdata[1]) : RLt(Zero, mdl.xdata[1][i])
    /\ AllZero3(mdl.out.fit)

\* C24 as stated: the same for every host array.
C24_AsStated ==
    DimerAtZero =>
        /\ mdl.out.status = "ok"
        /\ AllZero3(mdl.out.fit)
        /\ AllZero3(mdl.out.molefrac)

-----------------------------------------------------------------------------
(* The range of the 1:1 models *)

\* A 1:1 model was called with k > 0 and non-negative totals.
PhysicalCall_1to1 ==
    /\ mdl.called /\ mdl.model \in OneToOneModels
    /\ RLt(Zero, mdl.params[1])
    /\ \A i \in 1..Len(mdl.xdata[1]) :
          RLe(Zero, mdl.xdata[1][i]) /\ RLe(Zero, mdl.xdata[2][i])

RMin(a, b) == IF RLt(b, a) THEN b ELSE a

Within(z, lo, hi) == z.im = Zero /\ RLe(lo, z.re) /\ RLe(z.re, hi)

\* C25: for k > 0 and non-negative totals, in every observation the
\* free-host concentration of the returned array lies in [0, h0] and its
\* bound-complex concentration lies in [0, min(h0, g0)]; for nmr_1to1, whose
\* rows are divided by h0, the concentrations are the rows times h0.
C25_ConcentrationsInRange ==
    PhysicalCall_1to1 =>
        /\ mdl.out.status = "ok"
        /\ \A i \in 1..Len(mdl.xdata[1]) :
              /\ Within(FreeConc(i), Zero, mdl.xdata[1][i])
              /\ Within(BoundConc(i), Zero,
                        RMin(mdl.xdata[1][i], mdl.xdata[2][i]))

-----------------------------------------------------------------------------
(* statistics and the state of the Fitter *)

\* A step that is a call of statistics, from within run_scipy or from outside.
StatisticsCalled == run.pc = "fitted" \/ stat'.n = stat.n + 1

\* The recorded calls a and b returned the same outcome and the same
\* confidence-interval vector.
SameReturn(calls, a, b) ==
    /\ calls[a].status = calls[b].status
    /\ calls[a].ci = calls[b].ci

\* C26: a call of statistics, from within run_scipy or from outside, leaves
\* every field of the Fitter as it was; any two recorded calls with no run
\* between them returned the same confidence-interval vector, and so did any
\* two that found the same Fitter.
C26_StatisticsKeepsNoState ==
    [][/\ StatisticsCalled => fitter' = fitter
       /\ \A a, b \in 1..Len(stat'.calls) :
             /\ stat'.calls[a].after = stat'.calls[b].after =>
                    SameReturn(stat'.calls, a, b)
             /\ stat'.calls[a].self = stat'.calls[b].self =>
                    SameReturn(stat'.calls, a, b)]_vars

\* Two calls from outside, one after the other, after a completed run: both
\* returned a vector.
C26_Witness ==
    /\ Len(stat.calls) = 2
    /\ stat.calls[1].after = stat.calls[2].after
    /\ stat.calls[1].self.params.is = "value"
    /\ \A a \in 1..2 : stat.calls[a].status = "ok" /\ stat.calls[a].ci # <<>>

-----------------------------------------------------------------------------
(* format_coeffs of the binding strategy *)

\* The number of raw coefficient rows the regression of a normalised binding
\* fit gives: one per species the model returns, less the host row.
RawRowsOf(self) ==
    IF self.flavour \in {"add", "stat"} \/ self.f \in {"nmr_1to1", "uv_1to1"} THEN 1 ELSE 2

\* format_coeffs was called, normalisation on, with the initial observations
\* and a raw array the binding model of the instance produces.
FormatCall ==
    /\ obj.called /\ obj.self.normalise /\ obj.ydata_init.given
    /\ Len(obj.coeffs) = RawRowsOf(obj.self)

\* The host row: the initial values, for a UV key divided by a given h0_init.
HostRow ==
    IF HasUv(obj.self.fitter) /\ obj.h0_init.given
    THEN [j \in 1..Len(obj.ydata_init.value) |->
             RDiv(obj.ydata_init.value[j], obj.h0_init.value)]
    ELSE obj.ydata_init.value

\* The reported rows: c and 2c for the additive flavours, else the raw rows.
ReportedRows ==
    IF obj.self.flavour \in {"add", "stat"}
    THEN <<obj.coeffs[1], [j \in 1..Len(obj.coeffs[1]) |-> RMul(R(2), obj.coeffs[1][j])]>>
    ELSE obj.coeffs

\* C27: with normalisation on, format_coeffs returns for every raw array the
\* binding models produce an array: the host row h followed by h plus each
\* reported row, the folded row c of the flavours "add" and "stat" being
\* reported as the two rows c and 2c.
C27_FormatCoeffsRows ==
    FormatCall =>
        /\ obj.out.status = "ok" /\ ~obj.out.none
        /\ Len(obj.out.value) = Len(ReportedRows) + 1
        /\ obj.out.value[1] = HostRow
        /\ \A r \in 1..Len(ReportedRows) :
              obj.out.value[r + 1] =
                  [j \in 1..Len(HostRow) |-> RAdd(HostRow[j], ReportedRows[r][j])]

\* A folded row expanded for a UV key with h0_init given.
C27_Witness ==
    /\ FormatCall
    /\ obj.self.flavour = "stat" /\ HasUv(obj.self.fitter) /\ obj.h0_init.given
    /\ Len(obj.out.value) = 3
    /\ obj.out.value[3] # obj.out.value[2]

-----------------------------------------------------------------------------
(* The arguments of an objective evaluation *)

\* C28: an evaluation of the objective leaves the fit_coeffs array it was
\* given as it was.
C28_ArgumentsUnchanged ==
    obj.called => obj.fit_coeffs_after = obj.fit_coeffs

-----------------------------------------------------------------------------
(* The result fields between runs *)

\* C29: between calls of run_scipy, the populated result fields come from
\* one and the same run: the run that wrote params is the run that wrote
\* time, fit, residuals, coeffs and molefrac.
C29_FieldsOfOneRun ==
    (run.pc = "idle" /\ fitter.params.is = "value" /\ fitter.fit.is = "value") =>
        hist.assigned = hist.stored

-----------------------------------------------------------------------------
(* The stored residuals *)

\* fit - ydata as numpy computes it: a fit of one row is set against every
\* row of ydata.
FitLessData(fit, ydata) ==
    [j \in 1..Len(ydata) |->
        [i \in 1..Len(ydata[j]) |->
            RSub(fit[IF Len(fit) = 1 THEN 1 ELSE j][i], ydata[j][i])]]

\* C30: after a run that returned normally, the stored residuals are the
\* stored fit less the original ydata, element by element, with normalise on
\* and with normalise off.
C30_ResidualsOfStoredFit ==
    run.outcome = "returned" =>
        /\ fitter.fit.is = "value" /\ fitter.residuals.is = "value"
        /\ fitter.residuals.value = FitLessData(fitter.fit.value, fitter.ydata)

\* A normalised run returned: the stored fit is not the normalised fit, and
\* the residuals are not all zero.
C30_Witness ==
    /\ run.outcome = "returned" /\ fitter.normalise
    /\ fitter.ydata[1][1] # Zero
    /\ \E j \in 1..Len(fitter.residuals.value) :
          \E i \in 1..Len(fitter.residuals.value[j]) :
              fitter.residuals.value[j][i] # Zero

====
